---- MODULE Spec2Model ----
(***************************************************************************)
(* A model of the peer-to-peer file sharing engine (vvc-git/sistemas-P2P). *)
(*                                                                         *)
(* Ten specifications share this module:                                   *)
(*   SpecPlanner  FileManager's discovery table and the assignment planner *)
(*                (storeChunkLocationInfo, selectPeersForChunkDownload);   *)
(*   SpecStore    FileManager's chunk store on disk (loadLocalChunks,      *)
(*                saveChunk, assembleFile, hasChunk) with its tasks;       *)
(*   Spec         the network of peers: the UDP control plane, the search  *)
(*                task of each peer and the TCP push connections;          *)
(*   SpecSearch   the search tasks Peer::start runs on one peer, one per   *)
(*                file name, with their sleeps and the response windows;   *)
(*   SpecFrame    TCPServer::sendChunks pushing one chunk: the control     *)
(*                header, its blocks and sleeps, and the header as the     *)
(*                receiver extracts it;                                    *)
(*   SpecDatagram one control datagram from its builder through            *)
(*                sendUDPMessage to the buffer of UDPServer::run;          *)
(*   SpecMaps     the accesses of the search tasks and of a datagram       *)
(*                handler to FileManager's maps and per-file mutexes;      *)
(*   SpecTable    the handlers of RESPONSE datagrams recording providers   *)
(*                in the discovery table of one file;                      *)
(*   SpecPush     TCPServer::sendChunks on one connection whose sends can  *)
(*                fail;                                                    *)
(*   SpecFlood    the control plane of the network alone, every DISCOVERY  *)
(*                in flight being handled in the end.                      *)
(* Every specification keeps the variables of the others at their initial  *)
(* value.                                                                  *)
(***************************************************************************)
EXTENDS Integers, Sequences, FiniteSets, Bags, TLC

VARIABLES
    pl_info,        \* SpecPlanner: chunk_location_info[file_name]
    pl_map,         \* SpecPlanner: the map selectPeersForChunkDownload returned
    pl_pc           \* SpecPlanner: "store" while RESPONSEs are recorded, "planned" after

plannerVars == <<pl_info, pl_map, pl_pc>>

VARIABLES
    st_disk,          \* SpecStore: the chunk files <file>.ch<i> of the peer's directory
    st_out,           \* SpecStore: the assembled file <file> of the peer's directory
    st_local_chunks,  \* SpecStore: local_chunks[file_name]
    st_file_chunks,   \* SpecStore: file_chunks[file_name]
    st_info,          \* SpecStore: TRUE while chunk_location_info holds file_name
    st_mutex,         \* SpecStore: the task that holds local_chunks_mutex[file_name]
    st_pc,            \* SpecStore: where each task is
    st_saves,         \* SpecStore: the number of PUT frames handled so far
    st_loc            \* SpecStore: the local variables of each task

storeVars == <<st_disk, st_out, st_local_chunks, st_file_chunks, st_info, st_mutex,
               st_pc, st_saves, st_loc>>

VARIABLES
    local_chunks,           \* Spec: FileManager::local_chunks[file_name] of each peer
    file_chunks,            \* Spec: FileManager::file_chunks[file_name] of each peer
    chunk_location_info,    \* Spec: FileManager::chunk_location_info[file_name] of each peer
    processing_active_map,  \* Spec: UDPServer::processing_active_map[file_name] of each peer
    processing_mutex,       \* Spec: the RESPONSE a handler holds processing_mutex for
    search_pc,              \* Spec: where the search task of each peer is
    initial_ttl,            \* Spec: the TTL the metadata sidecar of the file declares
    net,                    \* Spec: the bag of UDP datagrams in flight
    conns,                  \* Spec: the TCP push connections, by <<sender, receiver>>
    assembled,              \* Spec: TRUE once assembleFile has returned true on the peer
    crashed,                \* Spec: TRUE once the process of the peer has died
    hist                    \* Spec: per peer, what it has sent and logged so far

netVars == <<local_chunks, file_chunks, chunk_location_info, processing_active_map,
             processing_mutex, search_pc, initial_ttl, net, conns, assembled, crashed,
             hist>>

VARIABLES
    sr_input,                  \* SpecSearch: file_names, the neighbours, the sidecars and chunk files
    sr_task,                   \* SpecSearch: where each search task is and when its sleep ends
    sr_file_chunks,            \* SpecSearch: FileManager::file_chunks
    sr_chunk_location_info,    \* SpecSearch: FileManager::chunk_location_info, per file name
    sr_processing_active_map,  \* SpecSearch: UDPServer::processing_active_map
    sr_log,                    \* SpecSearch: per file name, whether DISCOVERY and REQUEST were sent
    sr_now,                    \* SpecSearch: the seconds elapsed since the search tasks were created
    sr_late,                   \* SpecSearch: TRUE once a task that could run was kept waiting
    sr_dead                    \* SpecSearch: TRUE once an uncaught exception has ended the process

searchVars == <<sr_input, sr_task, sr_file_chunks, sr_chunk_location_info,
                sr_processing_active_map, sr_log, sr_now, sr_late, sr_dead>>

VARIABLES
    fr_input,            \* SpecFrame: file name, chunk id, transfer speed and size of the chunk file
    fr_pc,               \* SpecFrame: where sendChunks is
    fr_buffer,           \* SpecFrame: control_message_buffer of sendChunks
    fr_total_bytes_sent, \* SpecFrame: total_bytes_sent of the loop sendChunks is in
    fr_wire,             \* SpecFrame: the bytes of the control header sent so far
    fr_blocks,           \* SpecFrame: the blocks sent so far: part, size and second of the send
    fr_since_sleep,      \* SpecFrame: the bytes sent since the last sleep ended
    fr_now,              \* SpecFrame: the seconds sendChunks has slept so far
    fr_control_message   \* SpecFrame: the header the receiver extracts, once it has all of it

frameVars == <<fr_input, fr_pc, fr_buffer, fr_total_bytes_sent, fr_wire, fr_blocks,
               fr_since_sleep, fr_now, fr_control_message>>

VARIABLES
    dg_input,           \* SpecDatagram: the kind of message, the file name length, the chunk count
    dg_pc,              \* SpecDatagram: "build", "flight", "handled" or "none"
    dg_message_size,    \* SpecDatagram: message.size() as handed to sendto
    dg_bytes_received,  \* SpecDatagram: bytes_received of recvfrom
    dg_dead             \* SpecDatagram: TRUE once the receiving process has died

datagramVars == <<dg_input, dg_pc, dg_message_size, dg_bytes_received, dg_dead>>

VARIABLES
    mp_input,   \* SpecMaps: what the peer holds of each file, and the datagram handled
    mp_keys,    \* SpecMaps: the file names each map of FileManager has an entry for
    mp_holder,  \* SpecMaps: the task that holds each per-file mutex
    mp_window,  \* SpecMaps: UDPServer::processing_active_map
    mp_pc,      \* SpecMaps: the access each task is at
    mp_busy,    \* SpecMaps: the map access each task is in the middle of
    mp_dead     \* SpecMaps: TRUE once the process has died

mapsVars == <<mp_input, mp_keys, mp_holder, mp_window, mp_pc, mp_busy, mp_dead>>

VARIABLES
    tb_info,    \* SpecTable: chunk_location_info[file_name]
    tb_call,    \* SpecTable: the RESPONSE each handler thread was started with
    tb_pc,      \* SpecTable: where each handler thread is
    tb_holder   \* SpecTable: the thread that holds UDPServer::processing_mutex

tableVars == <<tb_info, tb_call, tb_pc, tb_holder>>

VARIABLES
    ps_input,             \* SpecPush: the transfer speed and the chunk list of the push
    ps_pc,                \* SpecPush: where sendChunks is
    ps_k,                 \* SpecPush: the position in the chunk list
    ps_total_bytes_sent,  \* SpecPush: total_bytes_sent, a size_t (-1 stands for 2^64 - 1)
    ps_sent,              \* SpecPush: the bytes transmitted on the connection so far
    ps_errors             \* SpecPush: the sends that have returned -1 so far

pushVars == <<ps_input, ps_pc, ps_k, ps_total_bytes_sent, ps_sent, ps_errors>>

vars == <<pl_info, pl_map, pl_pc,
          st_disk, st_out, st_local_chunks, st_file_chunks, st_info, st_mutex,
          st_pc, st_saves, st_loc,
          local_chunks, file_chunks, chunk_location_info, processing_active_map,
          processing_mutex, search_pc, initial_ttl, net, conns, assembled, crashed,
          hist,
          sr_input, sr_task, sr_file_chunks, sr_chunk_location_info,
          sr_processing_active_map, sr_log, sr_now, sr_late, sr_dead,
          fr_input, fr_pc, fr_buffer, fr_total_bytes_sent, fr_wire, fr_blocks,
          fr_since_sleep, fr_now, fr_control_message,
          dg_input, dg_pc, dg_message_size, dg_bytes_received, dg_dead,
          mp_input, mp_keys, mp_holder, mp_window, mp_pc, mp_busy, mp_dead,
          tb_info, tb_call, tb_pc, tb_holder,
          ps_input, ps_pc, ps_k, ps_total_bytes_sent, ps_sent, ps_errors>>

\* The value of pl_map before the planner has run.
NoPlan == [none |-> TRUE]

\* The planner variables in the specifications that do not use them.
PlannerIdle ==
    /\ pl_info = <<>>
    /\ pl_map = NoPlan
    /\ pl_pc = "off"

\* The network variables in the specifications that do not use them.
NetIdle ==
    /\ local_chunks = <<>>
    /\ file_chunks = <<>>
    /\ chunk_location_info = <<>>
    /\ processing_active_map = <<>>
    /\ processing_mutex = <<>>
    /\ search_pc = <<>>
    /\ initial_ttl = 0
    /\ net = <<>>
    /\ conns = <<>>
    /\ assembled = <<>>
    /\ crashed = <<>>
    /\ hist = <<>>

\* The search variables in the specifications that do not use them.
SearchIdle ==
    /\ sr_input = <<>>
    /\ sr_task = <<>>
    /\ sr_file_chunks = <<>>
    /\ sr_chunk_location_info = <<>>
    /\ sr_processing_active_map = <<>>
    /\ sr_log = <<>>
    /\ sr_now = 0
    /\ sr_late = FALSE
    /\ sr_dead = FALSE

\* The frame variables in the specifications that do not use them.
FrameIdle ==
    /\ fr_input = <<>>
    /\ fr_pc = "off"
    /\ fr_buffer = <<>>
    /\ fr_total_bytes_sent = 0
    /\ fr_wire = <<>>
    /\ fr_blocks = <<>>
    /\ fr_since_sleep = 0
    /\ fr_now = 0
    /\ fr_control_message = <<>>

\* The datagram variables in the specifications that do not use them.
DatagramIdle ==
    /\ dg_input = <<>>
    /\ dg_pc = "off"
    /\ dg_message_size = 0
    /\ dg_bytes_received = 0
    /\ dg_dead = FALSE

\* The map variables in the specifications that do not use them.
MapsIdle ==
    /\ mp_input = <<>>
    /\ mp_keys = <<>>
    /\ mp_holder = <<>>
    /\ mp_window = <<>>
    /\ mp_pc = <<>>
    /\ mp_busy = <<>>
    /\ mp_dead = FALSE

TableIdle ==
    /\ tb_info = <<>>
    /\ tb_call = <<>>
    /\ tb_pc = <<>>
    /\ tb_holder = "none"

PushIdle ==
    /\ ps_input = <<>>
    /\ ps_pc = "none"
    /\ ps_k = 0
    /\ ps_total_bytes_sent = 0
    /\ ps_sent = 0
    /\ ps_errors = 0

\* A step of SpecStore leaves the variables of the other specifications alone.
StoreOnly ==
    UNCHANGED <<plannerVars, netVars, searchVars, frameVars, datagramVars, mapsVars,
                tableVars, pushVars>>

\* A step of SpecPlanner leaves the variables of the other specifications alone.
PlannerOnly ==
    UNCHANGED <<storeVars, netVars, searchVars, frameVars, datagramVars, mapsVars,
                tableVars, pushVars>>

\* A step of Spec leaves the variables of the other specifications alone.
NetOnly ==
    UNCHANGED <<plannerVars, storeVars, searchVars, frameVars, datagramVars, mapsVars,
                tableVars, pushVars>>

\* A step of SpecSearch leaves the variables of the other specifications alone.
SearchOnly ==
    UNCHANGED <<plannerVars, storeVars, netVars, frameVars, datagramVars, mapsVars,
                tableVars, pushVars>>

\* A step of SpecFrame leaves the variables of the other specifications alone.
FrameOnly ==
    UNCHANGED <<plannerVars, storeVars, netVars, searchVars, datagramVars, mapsVars,
                tableVars, pushVars>>

\* A step of SpecDatagram leaves the variables of the other specifications alone.
DatagramOnly ==
    UNCHANGED <<plannerVars, storeVars, netVars, searchVars, frameVars, mapsVars,
                tableVars, pushVars>>

\* A step of SpecMaps leaves the variables of the other specifications alone.
MapsOnly ==
    UNCHANGED <<plannerVars, storeVars, netVars, searchVars, frameVars, datagramVars,
                tableVars, pushVars>>

\* A step of SpecTable leaves the variables of the other specifications alone.
TableOnly ==
    UNCHANGED <<plannerVars, storeVars, netVars, searchVars, frameVars, datagramVars,
                mapsVars, pushVars>>

\* A step of SpecPush leaves the variables of the other specifications alone.
PushOnly ==
    UNCHANGED <<plannerVars, storeVars, netVars, searchVars, frameVars, datagramVars,
                mapsVars, tableVars>>

(***************************************************************************)
(* Helpers                                                                 *)
(***************************************************************************)
Min(a, b) == IF a < b THEN a ELSE b

\* All orderings of the elements of a sequence (by position).
PermsOf(s) ==
    LET n == Len(s)
        bij == {f \in [1..n -> 1..n] : \A i, j \in 1..n : i # j => f[i] # f[j]}
    IN  {[i \in 1..n |-> s[f[i]]] : f \in bij}

(***************************************************************************)
(* FileManager: the discovery table                                        *)
(***************************************************************************)
\* Number of chunks of the file of the planner specification.
PlannerChunks == 3

\* A range test that takes chunk 0 for out of range.
SizeTLessFromOne(chunk_id, size) == chunk_id > 0 /\ chunk_id < size

\* static_cast<size_t>(chunk_id) < size: a negative int converts to 2^64 + chunk_id,
\* which is above the size of any vector, so the comparison is false for it.
SizeTLess(chunk_id, size) == chunk_id >= 0 /\ chunk_id < size

ChunkLocationInfo(ip, port, transfer_speed) ==
    [ip |-> ip, port |-> port, transfer_speed |-> transfer_speed]

\* A table of one list less than the file has chunks.
EmptyInfoShort(total_chunks) == [i \in 1..(total_chunks - 1) |-> <<>>]

\* chunk_location_info[file_name].resize(total_chunks): a vector of empty lists;
\* the list of chunk i is at position i + 1.
EmptyInfo(total_chunks) == [i \in 1..total_chunks |-> <<>>]

\* A table that takes a provider for recorded only when its rate is recorded too.
RECURSIVE storeChunkLocationInfoByRecord(_, _, _, _, _)
storeChunkLocationInfoByRecord(info, chunk_ids, ip, port, transfer_speed) ==
    IF chunk_ids = <<>> THEN info
    ELSE LET chunk_id == Head(chunk_ids)
             inRange == chunk_id >= 0 /\ chunk_id < Len(info)
             peer_exists == inRange /\ \E k \in 1..Len(info[chunk_id + 1]) :
                                info[chunk_id + 1][k] =
                                    ChunkLocationInfo(ip, port, transfer_speed)
             next == IF inRange /\ ~peer_exists
                     THEN [info EXCEPT ![chunk_id + 1] =
                              Append(@, ChunkLocationInfo(ip, port, transfer_speed))]
                     ELSE info
         IN  storeChunkLocationInfoByRecord(next, Tail(chunk_ids), ip, port,
                                            transfer_speed)

RECURSIVE storeChunkLocationInfo(_, _, _, _, _)
storeChunkLocationInfo(info, chunk_ids, ip, port, transfer_speed) ==
    IF chunk_ids = <<>> THEN info
    ELSE LET chunk_id == Head(chunk_ids)
             inRange == SizeTLess(chunk_id, Len(info))
             peer_exists == inRange /\ \E k \in 1..Len(info[chunk_id + 1]) :
                                /\ info[chunk_id + 1][k].ip = ip
                                /\ info[chunk_id + 1][k].port = port
             next == IF inRange /\ ~peer_exists
                     THEN [info EXCEPT ![chunk_id + 1] =
                              Append(@, ChunkLocationInfo(ip, port, transfer_speed))]
                     ELSE info
         IN  storeChunkLocationInfo(next, Tail(chunk_ids), ip, port, transfer_speed)

(***************************************************************************)
(* FileManager: the assignment planner                                     *)
(***************************************************************************)
\* selected_peer.ip + ":" + std::to_string(selected_peer.port)
PeerKey(peer) == <<peer.ip, peer.port>>

\* chunks_by_peer_map[key].size(): operator[] inserts an empty list for a new key.
Touch(map, key) == IF key \in DOMAIN map THEN map ELSE map @@ (key :> <<>>)

\* std::sort by descending transfer_speed: the order of peers of equal speed is
\* unspecified, so every descending ordering is a possible result.
SortedBySpeed(peers) ==
    {s \in PermsOf(peers) :
        \A i, j \in 1..Len(s) : i < j => s[i].transfer_speed >= s[j].transfer_speed}

\* ScanPeers with "<=" for "<": among the least loaded peers the last, not the first.
RECURSIVE ScanPeersLastMin(_, _, _, _, _)
ScanPeersLastMin(sorted, k, selected_peer_key, min_chunks_assigned, map) ==
    IF k > Len(sorted)
    THEN [key |-> selected_peer_key, map |-> map]
    ELSE LET current_peer_key == <<sorted[k].ip, sorted[k].port>>
             map1 == IF current_peer_key \in DOMAIN map THEN map
                     ELSE map @@ (current_peer_key :> <<>>)
             chunks_assigned_to_current_peer == Len(map1[current_peer_key])
         IN  IF chunks_assigned_to_current_peer <= min_chunks_assigned
             THEN ScanPeersLastMin(sorted, k + 1, current_peer_key,
                                   chunks_assigned_to_current_peer, map1)
             ELSE ScanPeersLastMin(sorted, k + 1, selected_peer_key,
                                   min_chunks_assigned, map1)

\* The loop over sorted_peers_by_speed, from position k on.
RECURSIVE ScanPeers(_, _, _, _, _)
ScanPeers(sorted, k, selected_peer_key, min_chunks_assigned, map) ==
    IF k > Len(sorted)
    THEN [key |-> selected_peer_key, map |-> map]
    ELSE LET current_peer_key == PeerKey(sorted[k])
             map1 == Touch(map, current_peer_key)
             chunks_assigned_to_current_peer == Len(map1[current_peer_key])
         IN  IF chunks_assigned_to_current_peer < min_chunks_assigned
             THEN ScanPeers(sorted, k + 1, current_peer_key,
                            chunks_assigned_to_current_peer, map1)
             ELSE ScanPeers(sorted, k + 1, selected_peer_key, min_chunks_assigned, map1)

\* The body of the loop over chunks for one chunk with providers.
AssignChunk(sorted, chunk_index, map) ==
    LET selected_peer_key == PeerKey(sorted[1])
        map1 == Touch(map, selected_peer_key)
        r == ScanPeers(sorted, 1, selected_peer_key, Len(map1[selected_peer_key]), map1)
    IN  [r.map EXCEPT ![r.key] = Append(@, chunk_index)]

\* PlanFrom with the loop over chunks ending one chunk early.
RECURSIVE PlanFromSkipLast(_, _, _)
PlanFromSkipLast(info, chunk_index, map) ==
    IF chunk_index >= Len(info) - 1 THEN {map}
    ELSE IF info[chunk_index + 1] = <<>>
         THEN PlanFromSkipLast(info, chunk_index + 1, map)
         ELSE UNION {PlanFromSkipLast(info, chunk_index + 1,
                                      AssignChunk(sorted, chunk_index, map)) :
                        sorted \in SortedBySpeed(info[chunk_index + 1])}

\* The loop over the chunks of the snapshot, from chunk_index on: every map it can end with.
RECURSIVE PlanFrom(_, _, _)
PlanFrom(info, chunk_index, map) ==
    IF chunk_index >= Len(info) THEN {map}
    ELSE IF info[chunk_index + 1] = <<>>
         THEN PlanFrom(info, chunk_index + 1, map)
         ELSE UNION {PlanFrom(info, chunk_index + 1, AssignChunk(sorted, chunk_index, map)) :
                        sorted \in SortedBySpeed(info[chunk_index + 1])}

\* The maps selectPeersForChunkDownload can return for a snapshot of the table.
selectPeersForChunkDownload(info) == PlanFrom(info, 0, <<>>)

(***************************************************************************)
(* FileManager: the chunk store                                            *)
(***************************************************************************)
\* total_chunks of the file of the store specification (its metadata sidecar).
StoreChunks == 2

\* The most PUT frames the stream receiver tasks handle together.
StoreMaxSaves == 2

\* A file of the peer's directory: absent, or present with its bytes.
NoFile == [exists |-> FALSE, bytes |-> <<>>]

File(bytes) == [exists |-> TRUE, bytes |-> bytes]

\* The contents of the chunk files the directory holds at startup and of the PUT
\* payloads; <<>> is a zero-length chunk.
StoreDiskContents == {<<>>, <<1>>}

StorePayloads == {<<>>, <<2>>}

\* The chunk ids of the chunk files and PUT frames: 0..n-1 and one id out of range.
StoreChunkIds == 0..StoreChunks

StoreReceivers == {"rx1", "rx2"}

StoreTasks == {"search"} \cup StoreReceivers

NoMutex == "free"

\* The bytes a write of data at offset 0 leaves in a file that held content.
WriteAtStart(file, data) ==
    IF Len(data) >= Len(file.bytes) THEN File(data)
    ELSE File(data \o SubSeq(file.bytes, Len(data) + 1, Len(file.bytes)))

\* The ordered concatenation of the chunk files 0..n-1 (a missing one counts as empty).
RECURSIVE ConcatChunks(_, _)
ConcatChunks(disk, n) ==
    IF n = 0 THEN <<>>
    ELSE ConcatChunks(disk, n - 1) \o disk[n - 1].bytes

\* loadLocalChunks: every <name>.ch<i> of the directory puts i in local_chunks[name].
loadLocalChunks(disk) == {i \in DOMAIN disk : disk[i].exists}

\* hasChunk, for a caller that holds local_chunks_mutex[file_name].
hasChunk(local, chunk) == chunk \in local

StoreLocals == [chunk |-> 0, data |-> <<>>, i |-> 0, buf |-> <<>>, good |-> FALSE,
                open |-> FALSE, ret |-> FALSE]

\* The store variables in the specifications that do not use them.
StoreIdle ==
    /\ st_disk = <<>>
    /\ st_out = NoFile
    /\ st_local_chunks = {}
    /\ st_file_chunks = 0
    /\ st_info = FALSE
    /\ st_mutex = NoMutex
    /\ st_pc = <<>>
    /\ st_saves = 0
    /\ st_loc = <<>>

\* The state after the construction of the peer: the directory holds any chunk files,
\* nothing is loaded yet.
StoreInit ==
    /\ st_disk \in [StoreChunkIds -> {File(b) : b \in StoreDiskContents} \cup {NoFile}]
    /\ st_out = NoFile
    /\ st_local_chunks = {}
    /\ st_file_chunks = 0
    /\ st_info = FALSE
    /\ st_mutex = NoMutex
    /\ st_pc = [t \in StoreTasks |-> "boot"]
    /\ st_saves = 0
    /\ st_loc = [t \in StoreTasks |-> StoreLocals]
    /\ PlannerIdle
    /\ NetIdle
    /\ SearchIdle
    /\ FrameIdle
    /\ DatagramIdle
    /\ MapsIdle
    /\ TableIdle
    /\ PushIdle

\* Peer::start: loadLocalChunks, then the servers and the search task run.
StoreLoad ==
    /\ StoreOnly
    /\ \A t \in StoreTasks : st_pc[t] = "boot"
    /\ st_local_chunks' = loadLocalChunks(st_disk)
    /\ st_pc' = [t \in StoreTasks |-> IF t = "search" THEN "start" ELSE "idle"]
    /\ UNCHANGED <<st_disk, st_out, st_file_chunks, st_info, st_mutex, st_saves, st_loc>>

\* saveChunkOpen without the return on a failed creation: the chunk is recorded anyway.
saveChunkOpenNoReturn(t, chunk, data, created) ==
    /\ StoreOnly
    /\ st_pc[t] = "idle"
    /\ st_saves < StoreMaxSaves
    /\ st_mutex = NoMutex
    /\ IF created
       THEN /\ st_mutex' = t
            /\ st_disk' = [st_disk EXCEPT ![chunk] = File(<<>>)]
            /\ st_pc' = [st_pc EXCEPT ![t] = "write"]
            /\ st_loc' = [st_loc EXCEPT ![t].chunk = chunk, ![t].data = data]
            /\ UNCHANGED st_local_chunks
       ELSE /\ st_local_chunks' = st_local_chunks \cup {chunk}
            /\ UNCHANGED <<st_mutex, st_disk, st_pc, st_loc>>
    /\ st_saves' = st_saves + 1
    /\ UNCHANGED <<st_out, st_file_chunks, st_info>>

\* saveChunk up to the creation of the chunk file: the lock is taken and the file is
\* created empty (or truncated); when the creation fails saveChunk returns.
saveChunkOpen(t, chunk, data, created) ==
    /\ StoreOnly
    /\ st_pc[t] = "idle"
    /\ st_saves < StoreMaxSaves
    /\ st_mutex = NoMutex
    /\ IF created
       THEN /\ st_mutex' = t
            /\ st_disk' = [st_disk EXCEPT ![chunk] = File(<<>>)]
            /\ st_pc' = [st_pc EXCEPT ![t] = "write"]
            /\ st_loc' = [st_loc EXCEPT ![t].chunk = chunk, ![t].data = data]
       ELSE /\ UNCHANGED <<st_mutex, st_disk, st_pc, st_loc>>
    /\ st_saves' = st_saves + 1
    /\ UNCHANGED <<st_out, st_local_chunks, st_file_chunks, st_info>>

\* saveChunk: the payload is written, the file closed and the chunk recorded.
saveChunkWrite(t) ==
    /\ StoreOnly
    /\ st_pc[t] = "write"
    /\ st_disk' = [st_disk EXCEPT ![st_loc[t].chunk] = File(st_loc[t].data)]
    /\ st_local_chunks' = st_local_chunks \cup {st_loc[t].chunk}
    /\ st_pc' = [st_pc EXCEPT ![t] = "asm"]
    /\ UNCHANGED <<st_out, st_file_chunks, st_info, st_mutex, st_saves, st_loc>>

\* Peer::searchFile up to the call of assembleFile: the chunk count of the metadata is
\* recorded and the discovery table created; no lock is taken.
StoreSearchStart ==
    /\ StoreOnly
    /\ st_pc["search"] = "start"
    /\ st_file_chunks' = StoreChunks
    /\ st_info' = TRUE
    /\ st_pc' = [st_pc EXCEPT !["search"] = "asm"]
    /\ UNCHANGED <<st_disk, st_out, st_local_chunks, st_mutex, st_saves, st_loc>>

\* assembleFile up to the opening of the output file: without every chunk it returns
\* false; otherwise the output file is created empty (or truncated), unless it cannot
\* be opened, and then the stream is in error from the start.
assembleFileOpen(t, opened) ==
    /\ StoreOnly
    /\ st_pc[t] = "asm"
    /\ LET has_all_chunks == Cardinality(st_local_chunks) = st_file_chunks
       IN  IF has_all_chunks
           THEN /\ st_out' = IF opened THEN File(<<>>) ELSE st_out
                /\ st_loc' = [st_loc EXCEPT ![t].i = 0, ![t].buf = <<>>,
                                            ![t].good = opened, ![t].open = opened]
                /\ st_pc' = [st_pc EXCEPT ![t] = "copy"]
           ELSE /\ st_loc' = [st_loc EXCEPT ![t] = [StoreLocals EXCEPT !.ret = FALSE]]
                /\ st_pc' = [st_pc EXCEPT ![t] = "ret"]
                /\ UNCHANGED st_out
    /\ UNCHANGED <<st_disk, st_local_chunks, st_file_chunks, st_info, st_mutex, st_saves>>

\* One round of the loop of assembleFile, or its end. A chunk file that cannot be
\* opened ends it with false; output_file << rdbuf() of an empty chunk file inserts
\* nothing and puts the output stream in error, and a stream in error writes nothing.
\* The bytes stay in the stream's buffer until the stream is closed, which writes
\* them at the start of the file.
assembleFileCopy(t) ==
    /\ StoreOnly
    /\ st_pc[t] = "copy"
    /\ LET i == st_loc[t].i
           flushed == IF st_loc[t].open THEN WriteAtStart(st_out, st_loc[t].buf)
                      ELSE st_out
       IN  IF i < st_file_chunks
           THEN IF ~st_disk[i].exists
                THEN /\ st_out' = flushed
                     /\ st_loc' = [st_loc EXCEPT ![t] = [StoreLocals EXCEPT !.ret = FALSE]]
                     /\ st_pc' = [st_pc EXCEPT ![t] = "ret"]
                     /\ UNCHANGED st_info
                ELSE /\ st_loc' = [st_loc EXCEPT
                          ![t].buf = IF st_loc[t].good THEN @ \o st_disk[i].bytes ELSE @,
                          ![t].good = @ /\ st_disk[i].bytes # <<>>,
                          ![t].i = i + 1]
                     /\ UNCHANGED <<st_out, st_pc, st_info>>
           ELSE /\ st_out' = flushed
                /\ st_info' = FALSE
                /\ st_loc' = [st_loc EXCEPT ![t] = [StoreLocals EXCEPT
                                      !.ret = TRUE, !.open = st_loc[t].open]]
                /\ st_pc' = [st_pc EXCEPT ![t] = "ret"]
    /\ UNCHANGED <<st_disk, st_local_chunks, st_file_chunks, st_mutex, st_saves>>

\* The return of assembleFile to its caller: saveChunk returns and releases the lock,
\* the search task goes on.
assembleFileReturn(t) ==
    /\ StoreOnly
    /\ st_pc[t] = "ret"
    /\ IF t = "search"
       THEN /\ st_pc' = [st_pc EXCEPT ![t] = "done"]
            /\ UNCHANGED st_mutex
       ELSE /\ st_pc' = [st_pc EXCEPT ![t] = "idle"]
            /\ st_mutex' = NoMutex
    /\ st_loc' = [st_loc EXCEPT ![t] = StoreLocals]
    /\ UNCHANGED <<st_disk, st_out, st_local_chunks, st_file_chunks, st_info, st_saves>>

StoreSave ==
    \E t \in StoreReceivers, chunk \in StoreChunkIds, data \in StorePayloads,
       created \in BOOLEAN : saveChunkOpen(t, chunk, data, created)

StoreWrite == \E t \in StoreReceivers : saveChunkWrite(t)

StoreAssembleOpen == \E t \in StoreTasks, opened \in BOOLEAN : assembleFileOpen(t, opened)

StoreAssembleCopy == \E t \in StoreTasks : assembleFileCopy(t)

StoreAssembleReturn == \E t \in StoreTasks : assembleFileReturn(t)

StoreNext ==
    \/ StoreLoad
    \/ StoreSearchStart
    \/ StoreSave
    \/ StoreWrite
    \/ StoreAssembleOpen
    \/ StoreAssembleCopy
    \/ StoreAssembleReturn

SpecStore == StoreInit /\ [][StoreNext]_vars

(***************************************************************************)
(* Properties of the chunk store                                           *)
(***************************************************************************)
\* loadLocalChunks has run.
StoreLoaded == st_pc # <<>> /\ st_pc["search"] # "boot"

\* C6: whenever assembleFile returns true (the output file having been opened), the
\* assembled file holds the concatenation, in index order, of the chunk files
\* 0..n-1, n being the chunk count of the metadata.
C6_AssembledIsConcatenation ==
    StoreLoaded =>
        \A t \in StoreTasks :
            (st_pc[t] = "ret" /\ st_loc[t].ret /\ st_loc[t].open)
                => st_out = File(ConcatChunks(st_disk, st_file_chunks))

\* C7 as claimed: once loadLocalChunks has run and while no saveChunk is under way,
\* hasChunk(f, i) is true exactly when the chunk file of i exists with content.
C7_HasChunkIffNonEmptyFile ==
    (StoreLoaded /\ st_mutex = NoMutex) =>
        \A i \in StoreChunkIds :
            hasChunk(st_local_chunks, i) <=> (st_disk[i].exists /\ st_disk[i].bytes # <<>>)

\* C7 as amended: once loadLocalChunks has run and while no saveChunk is under way,
\* hasChunk(f, i) is true exactly when the chunk file of i exists, empty or not.
C7_HasChunkIffFile ==
    (StoreLoaded /\ st_mutex = NoMutex) =>
        \A i \in StoreChunkIds : hasChunk(st_local_chunks, i) <=> st_disk[i].exists

\* A received payload is on disk and held, a zero-length chunk is held, and a chunk
\* whose file was never created is not.
C7_Witness ==
    /\ StoreLoaded
    /\ st_mutex = NoMutex
    /\ st_saves = StoreMaxSaves
    /\ \E i, j, k \in StoreChunkIds :
          /\ hasChunk(st_local_chunks, i) /\ st_disk[i] = File(<<2>>)
          /\ hasChunk(st_local_chunks, j) /\ st_disk[j] = File(<<>>)
          /\ ~hasChunk(st_local_chunks, k) /\ ~st_disk[k].exists

\* A task is inside saveChunk or assembleFile: a stream receiver from the creation of
\* the chunk file to the return of assembleFile, the search task while assembleFile
\* reads the chunk set and the chunk files.
InsideStore(t) ==
    IF t = "search" THEN st_pc[t] \in {"copy", "ret"}
    ELSE st_pc[t] \in {"write", "asm", "copy", "ret"}

\* C26: no two tasks are inside saveChunk or assembleFile of the file at once.
C26_SaveAndAssembleExclusive ==
    \A t, u \in StoreTasks : (InsideStore(t) /\ InsideStore(u)) => t = u

\* C37: whenever assembleFile returns false, the assembled file is left as it was
\* (not created, truncated or partially written) and the discovery table of the file
\* is not cleared: the step in which a task leaves assembleFile with false changes
\* neither of them.
C37_FalseLeavesFileAndTable ==
    [][\A t \in StoreTasks :
          (st_pc[t] \in {"asm", "copy"} /\ st_pc'[t] = "ret" /\ ~st_loc'[t].ret)
              => (st_out' = st_out /\ st_info' = st_info)]_vars

(***************************************************************************)
(* SpecPlanner: RESPONSEs are recorded in any order, then the planner runs *)
(***************************************************************************)
\* The providers that answer in the planner specification.
PlannerProviders ==
    { ChunkLocationInfo("A", 6001, 100),
      ChunkLocationInfo("B", 6002, 50),
      ChunkLocationInfo("C", 6003, 100) }

\* The chunk id lists of the RESPONSEs: one chunk, every chunk, ids out of range.
PlannerChunkLists ==
    {<<c>> : c \in -1..PlannerChunks} \cup {[i \in 1..PlannerChunks |-> i - 1]}

PlannerInit ==
    /\ pl_info = EmptyInfo(PlannerChunks)
    /\ pl_map = NoPlan
    /\ pl_pc = "store"
    /\ StoreIdle
    /\ NetIdle
    /\ SearchIdle
    /\ FrameIdle
    /\ DatagramIdle
    /\ MapsIdle
    /\ TableIdle
    /\ PushIdle

PlannerStore ==
    /\ pl_pc = "store"
    /\ \E p \in PlannerProviders, ids \in PlannerChunkLists :
          pl_info' = storeChunkLocationInfo(pl_info, ids, p.ip, p.port, p.transfer_speed)
    /\ UNCHANGED <<pl_map, pl_pc>>
    /\ PlannerOnly

PlannerSelect ==
    /\ pl_pc = "store"
    /\ \E map \in selectPeersForChunkDownload(pl_info) : pl_map' = map
    /\ pl_pc' = "planned"
    /\ UNCHANGED pl_info
    /\ PlannerOnly

PlannerNext == PlannerStore \/ PlannerSelect

SpecPlanner == PlannerInit /\ [][PlannerNext]_vars

(***************************************************************************)
(* Properties of the planner                                               *)
(***************************************************************************)
\* The provider keys whose list in the map contains chunk i.
Owners(map, i) == {k \in DOMAIN map : \E j \in 1..Len(map[k]) : map[k][j] = i}

\* How often chunk i occurs in the lists of the map.
Occurrences(map, i) ==
    Cardinality({<<k, j>> \in UNION {{k} \X (1..Len(map[k])) : k \in DOMAIN map} :
                    map[k][j] = i})

\* The provider keys recorded for chunk i.
ProvidersOf(info, i) == {PeerKey(info[i + 1][k]) : k \in 1..Len(info[i + 1])}

\* The speed recorded for provider key of chunk i.
SpeedOf(info, i, key) ==
    LET k == CHOOSE k \in 1..Len(info[i + 1]) : PeerKey(info[i + 1][k]) = key
    IN  info[i + 1][k].transfer_speed

\* The number of chunks below i the map gives to key: its load when i is assigned.
AssignedBefore(map, key, i) ==
    IF key \in DOMAIN map
    THEN Cardinality({j \in 1..Len(map[key]) : map[key][j] < i})
    ELSE 0

\* C3: in the map selectPeersForChunkDownload returns, every chunk with at least one
\* provider is in the list of exactly one provider, once, and that provider is one of
\* the chunk's providers; a chunk with no provider is in no list.
C3_EachChunkOnce ==
    pl_pc = "planned" =>
        \A i \in 0..(Len(pl_info) - 1) :
            IF pl_info[i + 1] # <<>>
            THEN /\ Occurrences(pl_map, i) = 1
                 /\ Owners(pl_map, i) \subseteq ProvidersOf(pl_info, i)
            ELSE Occurrences(pl_map, i) = 0

C3_Witness ==
    /\ pl_pc = "planned"
    /\ \E i, j \in 0..(Len(pl_info) - 1) :
          /\ Len(pl_info[i + 1]) >= 2
          /\ pl_info[j + 1] = <<>>
          /\ Owners(pl_map, i) # {}

\* The table in which providers A (speed 100) and B (speed 50) hold every chunk.
TableAB == [i \in 1..PlannerChunks |->
               <<ChunkLocationInfo("A", 6001, 100), ChunkLocationInfo("B", 6002, 50)>>]

C5_FastestThenLeastLoaded ==
    pl_pc = "planned" =>
        \A i \in 0..(Len(pl_info) - 1) : \A k \in Owners(pl_map, i) :
            \A q \in ProvidersOf(pl_info, i) :
               /\ SpeedOf(pl_info, i, k) >= SpeedOf(pl_info, i, q)
               /\ SpeedOf(pl_info, i, k) = SpeedOf(pl_info, i, q)
                     => AssignedBefore(pl_map, k, i) <= AssignedBefore(pl_map, q, i)

(***************************************************************************)
(* The network of peers: one file, searched by one peer                    *)
(***************************************************************************)
\* Constants::CONTROL_MESSAGE_MAX_SIZE: the size of a control header on a push connection.
CONTROL_MESSAGE_MAX_SIZE == 1024

\* total_chunks of the metadata sidecar of the file.
TotalChunks == 2

\* The initial TTLs the metadata sidecar of the file can declare.
InitialTTLs == {0, 1, 2}

\* The size in bytes of every chunk file of the file.
ChunkBytes == 700

\* The peers of the topology file; peer p has ip p and the ports below.
Peers == {1, 2, 3}

\* The neighbours of the topology file: the line 1 - 2 - 3.
udpNeighbors(p) == CASE p = 1 -> {2} [] p = 2 -> {1, 3} [] p = 3 -> {2}

\* The transfer speed (bytes per second) of the configuration of each peer.
transfer_speed(p) == CASE p = 1 -> 1024 [] p = 2 -> 600 [] p = 3 -> 1024

\* The UDP port of the configuration of each peer.
udp_port(p) == 6000 + p

\* The chunk ids of the file, and the ids a chunk file of a directory can bear:
\* those of the file and one id past them.
InRange == 0..(TotalChunks - 1)

ChunkIds == 0..TotalChunks

\* The sets of chunk files the directory of the searching peer holds at startup,
\* and those the directory of another peer holds.
Holdings == {{}, {0}, InRange \ {0}, InRange, ChunkIds}

ProviderHoldings == {{}, {0}, ChunkIds}

\* The peer Peer::start is given the file name on: an end of the line or its middle
\* (peer 3 is the mirror image of peer 1).
Searchers == {1, 2}

\* chunk_location_info without an entry for the file, and with one.
NoTable == [exists |-> FALSE, info |-> <<>>]

Table(info) == [exists |-> TRUE, info |-> info]

\* A UDP datagram: the fields of the three control messages, and the addresses.
Datagram(kind, src, dst, total_chunks, ttl, origin, rate, chunks) ==
    [kind |-> kind, src |-> src, dst |-> dst, total_chunks |-> total_chunks,
     ttl |-> ttl, origin |-> origin, rate |-> rate, chunks |-> chunks]

\* processing_mutex when no RESPONSE handler holds it.
NoDatagram == Datagram("NONE", 0, 0, 0, 0, 0, 0, <<>>)

\* "DISCOVERY <file> <total_chunks> <ttl> <ip>:<port>" sent by src to dst.
buildChunkDiscoveryMessage(src, dst, total_chunks, ttl, origin) ==
    Datagram("DISCOVERY", src, dst, total_chunks, ttl, origin, 0, <<>>)

\* "RESPONSE <file> <transfer_speed> <chunk> ..." sent by src to dst.
buildChunkResponseMessage(src, dst, chunks_available) ==
    Datagram("RESPONSE", src, dst, 0, 0, 0, transfer_speed(src), chunks_available)

\* "REQUEST <file> <tcp_port> <chunk> ..." sent by src to dst.
buildChunkRequestMessage(src, dst, chunks) ==
    Datagram("REQUEST", src, dst, 0, 0, 0, 0, chunks)

\* getAvailableChunks: the elements of the std::set in increasing order.
RECURSIVE getAvailableChunks(_)
getAvailableChunks(local) ==
    IF local = {} THEN <<>>
    ELSE LET least == CHOOSE x \in local : \A y \in local : x <= y
         IN  <<least>> \o getAvailableChunks(local \ {least})

\* assembleFile on a store whose chunk file i exists exactly when i is in the local
\* set: the set has total_chunks elements and every chunk file 0..total_chunks-1 opens.
assembleFile(local, total_chunks) ==
    /\ Cardinality(local) = total_chunks
    /\ \A i \in 0..(total_chunks - 1) : i \in local

\* A push connection; phase is where sendChunks is, rphase where receiveChunks is.
Conn(frames, k, phase, total_bytes_sent, sent, rpos, rphase, got, hstart, chunk_id, chunk_size, speed, ctotal) ==
    [frames |-> frames, k |-> k, phase |-> phase, total_bytes_sent |-> total_bytes_sent,
     sent |-> sent, rpos |-> rpos, rphase |-> rphase, got |-> got, hstart |-> hstart,
     chunk_id |-> chunk_id, chunk_size |-> chunk_size, speed |-> speed, ctotal |-> ctotal]

NoConn == Conn(<<>>, 0, "none", 0, 0, 0, "none", 0, 0, 0, 0, 0, 0)

\* The offset in the byte stream of the header of frame j, and the frame, if any,
\* whose header starts at an offset (0 if none).
FrameStart(j) == (j - 1) * (CONTROL_MESSAGE_MAX_SIZE + ChunkBytes)

FrameAt(frames, pos) ==
    IF \E j \in 1..Len(frames) : FrameStart(j) = pos
    THEN CHOOSE j \in 1..Len(frames) : FrameStart(j) = pos
    ELSE 0

\* What a peer has done so far: the chunks it held when its search started, the
\* DISCOVERY and REQUEST datagrams its search task sent, the RESPONSEs it dropped,
\* whether every chunk it lacked had a provider when its window closed, and the
\* DISCOVERYs it handled that bore its own address or a TTL of 0 from another origin,
\* whether a DISCOVERY was delivered to it, the senders of the RESPONSEs its
\* handlers took while its window was true, and the chunks it lacked that had no
\* provider when its window closed.
NoHist == [held_at_start |-> {}, discovery_sent |-> 0, request_sent |-> 0,
           response_dropped |-> 0, covered |-> FALSE,
           own_discovery |-> 0, zero_ttl_discovery |-> 0,
           discovery_received |-> FALSE, answered_in_window |-> {},
           uncovered |-> {}]

NetInit ==
    /\ file_chunks = [p \in Peers |-> 0]
    /\ chunk_location_info = [p \in Peers |-> NoTable]
    /\ processing_active_map = [p \in Peers |-> FALSE]
    /\ processing_mutex = [p \in Peers |-> NoDatagram]
    /\ \E s \in Searchers :
          /\ search_pc = [p \in Peers |-> IF p = s THEN "start" ELSE "off"]
          /\ local_chunks \in {h \in [Peers -> Holdings] :
                                 \A p \in Peers \ {s} : h[p] \in ProviderHoldings}
    /\ initial_ttl \in InitialTTLs
    /\ net = EmptyBag
    /\ conns = [c \in Peers \X Peers |-> NoConn]
    /\ assembled = [p \in Peers |-> FALSE]
    /\ crashed = [p \in Peers |-> FALSE]
    /\ hist = [p \in Peers |-> NoHist]
    /\ PlannerIdle
    /\ StoreIdle
    /\ SearchIdle
    /\ FrameIdle
    /\ DatagramIdle
    /\ MapsIdle
    /\ TableIdle
    /\ PushIdle

\* Peer::searchFile up to the first assembleFile of discoverAndRequestChunks:
\* loadMetadata, initializeFileChunks, initializeChunkLocationInfo,
\* initializeProcessingActive and the assembly attempt.
searchFile(p, metadata_ok) ==
    /\ NetOnly
    /\ search_pc[p] = "start"
    /\ ~crashed[p]
    /\ processing_mutex[p] = NoDatagram
    /\ IF ~metadata_ok
       THEN /\ search_pc' = [search_pc EXCEPT ![p] = "done"]
            /\ UNCHANGED <<file_chunks, chunk_location_info, processing_active_map,
                           assembled, hist>>
       ELSE /\ file_chunks' = [file_chunks EXCEPT ![p] = TotalChunks]
            /\ processing_active_map' = [processing_active_map EXCEPT ![p] = TRUE]
            /\ hist' = [hist EXCEPT ![p].held_at_start = local_chunks[p]]
            /\ IF assembleFile(local_chunks[p], TotalChunks)
               THEN /\ assembled' = [assembled EXCEPT ![p] = TRUE]
                    /\ chunk_location_info' = [chunk_location_info EXCEPT ![p] = NoTable]
                    /\ search_pc' = [search_pc EXCEPT ![p] = "done"]
               ELSE /\ chunk_location_info' = [chunk_location_info EXCEPT ![p] =
                           IF @.exists THEN @ ELSE Table(EmptyInfo(TotalChunks))]
                    /\ search_pc' = [search_pc EXCEPT ![p] = "discover"]
                    /\ UNCHANGED assembled
    /\ UNCHANGED <<local_chunks, processing_mutex, initial_ttl, net, conns, crashed>>

\* sendChunkDiscoveryMessage stopping after the first neighbour.
sendChunkDiscoveryMessageFirstOnly(src, total_chunks, ttl, origin) ==
    LET first == CHOOSE dst \in udpNeighbors(src) : \A n \in udpNeighbors(src) : dst <= n
    IN  SetToBag({buildChunkDiscoveryMessage(src, first, total_chunks, ttl, origin)})

\* sendChunkDiscoveryMessage: the DISCOVERY datagrams src sends to its neighbours.
sendChunkDiscoveryMessage(src, total_chunks, ttl, origin) ==
    SetToBag({buildChunkDiscoveryMessage(src, dst, total_chunks, ttl, origin) :
                 dst \in udpNeighbors(src)})

\* discoverAndRequestChunks: the flood the search task starts after a failed assembly.
discoverChunks(p) ==
    /\ NetOnly
    /\ search_pc[p] = "discover"
    /\ ~crashed[p]
    /\ net' = net (+) sendChunkDiscoveryMessage(p, file_chunks[p], initial_ttl, p)
    /\ hist' = [hist EXCEPT ![p].discovery_sent = @ + Cardinality(udpNeighbors(p))]
    /\ search_pc' = [search_pc EXCEPT ![p] = "wait"]
    /\ UNCHANGED <<local_chunks, file_chunks, chunk_location_info, processing_active_map,
                   processing_mutex, initial_ttl, conns, assembled, crashed>>

\* Every chunk of the file the peer lacks has a recorded provider.
Covered(p) ==
    /\ chunk_location_info[p].exists
    /\ \A i \in InRange \ local_chunks[p] :
          /\ i + 1 <= Len(chunk_location_info[p].info)
          /\ chunk_location_info[p].info[i + 1] # <<>>

\* The chunks of the file the peer lacks that have no recorded provider.
Uncovered(p) ==
    {i \in InRange \ local_chunks[p] :
        \/ ~chunk_location_info[p].exists
        \/ i + 1 > Len(chunk_location_info[p].info)
        \/ chunk_location_info[p].info[i + 1] = <<>>}

\* waitForResponses: after the timeout, under processing_mutex, the window is closed.
waitForResponses(p) ==
    /\ NetOnly
    /\ search_pc[p] = "wait"
    /\ ~crashed[p]
    /\ processing_mutex[p] = NoDatagram
    /\ processing_active_map' = [processing_active_map EXCEPT ![p] = FALSE]
    /\ hist' = [hist EXCEPT ![p].covered = Covered(p), ![p].uncovered = Uncovered(p)]
    /\ search_pc' = [search_pc EXCEPT ![p] = "request"]
    /\ UNCHANGED <<local_chunks, file_chunks, chunk_location_info, processing_mutex,
                   initial_ttl, net, conns, assembled, crashed>>

\* sendChunkRequestMessage: one REQUEST per entry of the map the planner returns;
\* chunk_location_info.at(file_name) throws when the table has no entry for the file,
\* and the exception ends the process.
sendChunkRequestMessage(p) ==
    /\ NetOnly
    /\ search_pc[p] = "request"
    /\ ~crashed[p]
    /\ IF ~chunk_location_info[p].exists
       THEN /\ crashed' = [crashed EXCEPT ![p] = TRUE]
            /\ UNCHANGED <<net, hist, search_pc>>
       ELSE /\ \E chunks_by_peer \in selectPeersForChunkDownload(chunk_location_info[p].info) :
                 /\ net' = net (+) SetToBag({buildChunkRequestMessage(p, key[1],
                                                   chunks_by_peer[key]) :
                                                key \in DOMAIN chunks_by_peer})
                 /\ hist' = [hist EXCEPT ![p].request_sent =
                                             @ + Cardinality(DOMAIN chunks_by_peer)]
            /\ search_pc' = [search_pc EXCEPT ![p] = "done"]
            /\ UNCHANGED crashed
    /\ UNCHANGED <<local_chunks, file_chunks, chunk_location_info, processing_active_map,
                   processing_mutex, initial_ttl, conns, assembled>>

\* sendChunkResponseMessage without the test on chunks_available.
sendChunkResponseMessageAlways(p, chunk_requester) ==
    SetToBag({buildChunkResponseMessage(p, chunk_requester,
                                        getAvailableChunks(local_chunks[p]))})

\* sendChunkResponseMessage: a RESPONSE to the requester when the peer holds chunks.
sendChunkResponseMessage(p, chunk_requester) ==
    IF getAvailableChunks(local_chunks[p]) # <<>>
    THEN SetToBag({buildChunkResponseMessage(p, chunk_requester,
                                             getAvailableChunks(local_chunks[p]))})
    ELSE EmptyBag

\* The test of processChunkDiscoveryMessage on the origin: always true.
IsForeignAlways(p, chunk_requester) == TRUE

\* chunk_requester_ip != ip || chunk_requester_port != port
IsForeign(p, chunk_requester) == chunk_requester # p

\* The test of processChunkDiscoveryMessage on the TTL with "> 1" for "> 0".
ShouldPropagateAboveOne(ttl) == ttl > 1

\* The test of processChunkDiscoveryMessage on the TTL with ">=" for ">".
ShouldPropagateFromZero(ttl) == ttl >= 0

\* if (ttl > 0)
ShouldPropagate(ttl) == ttl > 0

\* processMessage on a DISCOVERY datagram: processChunkDiscoveryMessage.
processChunkDiscoveryMessage(p, m) ==
    /\ NetOnly
    /\ BagIn(m, net)
    /\ m.kind = "DISCOVERY"
    /\ m.dst = p
    /\ ~crashed[p]
    /\ net' = (net (-) SetToBag({m}))
              (+) (IF IsForeign(p, m.origin)
                   THEN sendChunkResponseMessage(p, m.origin)
                        (+) (IF ShouldPropagate(m.ttl)
                             THEN sendChunkDiscoveryMessage(p, m.total_chunks,
                                                            m.ttl - 1, m.origin)
                             ELSE EmptyBag)
                   ELSE EmptyBag)
    /\ hist' = [hist EXCEPT
                   ![p].own_discovery = IF m.origin = p THEN @ + 1 ELSE @,
                   ![p].zero_ttl_discovery = IF m.origin # p /\ m.ttl = 0 THEN @ + 1 ELSE @,
                   ![p].discovery_received = TRUE]
    /\ UNCHANGED <<local_chunks, file_chunks, chunk_location_info, processing_active_map,
                   processing_mutex, search_pc, initial_ttl, conns, assembled, crashed>>

\* The test of processMessage on the window, always true.
WindowOpenAlways(map, p) == TRUE

\* processing_active_map[file_name], read under processing_mutex.
WindowOpen(map, p) == map[p]

\* processMessage on a RESPONSE datagram: processing_mutex is taken and the window
\* read; the datagram is dropped with a log line when the window is closed.
processMessageResponse(p, m) ==
    /\ NetOnly
    /\ BagIn(m, net)
    /\ m.kind = "RESPONSE"
    /\ m.dst = p
    /\ ~crashed[p]
    /\ processing_mutex[p] = NoDatagram
    /\ net' = net (-) SetToBag({m})
    /\ processing_mutex' = [processing_mutex EXCEPT ![p] =
                               IF WindowOpen(processing_active_map, p) THEN m ELSE @]
    /\ hist' = [hist EXCEPT
                   ![p].response_dropped =
                       IF WindowOpen(processing_active_map, p) THEN @ ELSE @ + 1,
                   ![p].answered_in_window =
                       IF processing_active_map[p] THEN @ \cup {m.src} ELSE @]
    /\ UNCHANGED <<local_chunks, file_chunks, chunk_location_info, processing_active_map,
                   search_pc, initial_ttl, conns, assembled, crashed>>

\* The chunk list of a RESPONSE taken whole, whatever the peer holds.
chunks_received_all(local, chunks) == chunks

\* while (message >> chunk): the listed chunks the peer does not hold.
chunks_received(local, chunks) == SelectSeq(chunks, LAMBDA chunk : ~hasChunk(local, chunk))

\* processChunkResponseMessage, still under processing_mutex: the sender is recorded
\* for the chunks the peer lacks; chunk_location_info[file_name] makes an empty entry
\* when the file has none.
processChunkResponseMessage(p) ==
    /\ NetOnly
    /\ processing_mutex[p] # NoDatagram
    /\ ~crashed[p]
    /\ LET m == processing_mutex[p]
           received == chunks_received(local_chunks[p], m.chunks)
       IN  chunk_location_info' = [chunk_location_info EXCEPT ![p] =
               IF received = <<>> THEN @
               ELSE Table(storeChunkLocationInfo(@.info, received, m.src,
                                                 udp_port(m.src), m.rate))]
    /\ processing_mutex' = [processing_mutex EXCEPT ![p] = NoDatagram]
    /\ UNCHANGED <<local_chunks, file_chunks, processing_active_map, search_pc,
                   initial_ttl, net, conns, assembled, crashed, hist>>

\* processMessage on a REQUEST datagram: processChunkRequestMessage calls sendChunks,
\* which connects to the TCP server of the requester; the frames are those of the
\* requested chunks whose chunk file opens.
processChunkRequestMessage(p, m) ==
    /\ NetOnly
    /\ BagIn(m, net)
    /\ m.kind = "REQUEST"
    /\ m.dst = p
    /\ ~crashed[p]
    /\ conns[<<p, m.src>>] = NoConn
    /\ net' = net (-) SetToBag({m})
    /\ LET frames == SelectSeq(m.chunks, LAMBDA chunk : hasChunk(local_chunks[p], chunk))
       IN  conns' = [conns EXCEPT ![<<p, m.src>>] =
               IF crashed[m.src] THEN Conn(frames, 0, "failed", 0, 0, 0, "done",
                                           0, 0, 0, 0, 0, 0)
               ELSE IF frames = <<>> THEN Conn(frames, 0, "closed", 0, 0, 0, "ctrl",
                                               0, 0, 0, 0, 0, 0)
               ELSE Conn(frames, 1, "header", 0, 0, 0, "ctrl", 0, 0, 0, 0, 0, 0)]
    /\ UNCHANGED <<local_chunks, file_chunks, chunk_location_info, processing_active_map,
                   processing_mutex, search_pc, initial_ttl, assembled, crashed, hist>>

\* sendChunks: one block of the control header of the current frame, then a sleep.
\* A send on a connection whose receiving process has died transmits nothing more.
sendControlBlock(p, q) ==
    /\ NetOnly
    /\ conns[<<p, q>>].phase = "header"
    /\ ~crashed[p]
    /\ LET c == conns[<<p, q>>]
           bytes_to_send == Min(transfer_speed(p),
                                CONTROL_MESSAGE_MAX_SIZE - c.total_bytes_sent)
           total == c.total_bytes_sent + bytes_to_send
       IN  conns' = [conns EXCEPT ![<<p, q>>] =
               IF crashed[q] THEN [c EXCEPT !.phase = "failed"]
               ELSE IF total < CONTROL_MESSAGE_MAX_SIZE
                    THEN [c EXCEPT !.total_bytes_sent = total, !.sent = @ + bytes_to_send]
                    ELSE [c EXCEPT !.total_bytes_sent = 0, !.sent = @ + bytes_to_send,
                                   !.phase = "payload"]]
    /\ UNCHANGED <<local_chunks, file_chunks, chunk_location_info, processing_active_map,
                   processing_mutex, search_pc, initial_ttl, net, assembled, crashed,
                   hist>>

\* sendChunks: one block of the payload of the current frame, then a sleep; after
\* the last block the next frame starts, or the socket is closed.
sendChunkBlock(p, q) ==
    /\ NetOnly
    /\ conns[<<p, q>>].phase = "payload"
    /\ ~crashed[p]
    /\ LET c == conns[<<p, q>>]
           bytes_to_send == Min(transfer_speed(p), ChunkBytes - c.total_bytes_sent)
           total == c.total_bytes_sent + bytes_to_send
       IN  conns' = [conns EXCEPT ![<<p, q>>] =
               IF crashed[q] THEN [c EXCEPT !.phase = "failed"]
               ELSE IF total < ChunkBytes
                    THEN [c EXCEPT !.total_bytes_sent = total, !.sent = @ + bytes_to_send]
                    ELSE IF c.k < Len(c.frames)
                         THEN [c EXCEPT !.total_bytes_sent = 0, !.sent = @ + bytes_to_send,
                                        !.k = @ + 1, !.phase = "header"]
                         ELSE [c EXCEPT !.total_bytes_sent = 0, !.sent = @ + bytes_to_send,
                                        !.phase = "closed"]]
    /\ UNCHANGED <<local_chunks, file_chunks, chunk_location_info, processing_active_map,
                   processing_mutex, search_pc, initial_ttl, net, assembled, crashed,
                   hist>>

\* receiveChunks, the loop on the control header: recv(fd, buffer, 1024) returns the
\* pending bytes, at most 1024 of them, or 0 once the sender has closed.  The bytes
\* read parse as the header of a frame when the first of them is the first byte of
\* that header; anything else is not a PUT and the loop starts over.
recvControl(q, p) ==
    /\ NetOnly
    /\ conns[<<p, q>>].rphase = "ctrl"
    /\ ~crashed[q]
    /\ LET c == conns[<<p, q>>]
           pending == c.sent - c.rpos
           control_message_size == Min(CONTROL_MESSAGE_MAX_SIZE, pending)
           total == c.got + control_message_size
           frame == FrameAt(c.frames, c.hstart)
       IN  /\ pending > 0 \/ c.phase = "closed"
           /\ conns' = [conns EXCEPT ![<<p, q>>] =
                  IF pending = 0 THEN [c EXCEPT !.rphase = "done"]
                  ELSE IF total < CONTROL_MESSAGE_MAX_SIZE
                       THEN [c EXCEPT !.got = total, !.rpos = @ + control_message_size]
                       ELSE IF frame # 0
                            THEN [c EXCEPT !.got = 0, !.rpos = @ + control_message_size,
                                           !.rphase = "data",
                                           !.chunk_id = c.frames[frame],
                                           !.chunk_size = ChunkBytes,
                                           !.speed = transfer_speed(p),
                                           !.ctotal = 0]
                            ELSE [c EXCEPT !.got = 0, !.rpos = @ + control_message_size,
                                           !.hstart = c.rpos + control_message_size]]
    /\ UNCHANGED <<local_chunks, file_chunks, chunk_location_info, processing_active_map,
                   processing_mutex, search_pc, initial_ttl, net, assembled, crashed,
                   hist>>

\* A payload loop that stops after its first read.
PayloadIncompleteNever(chunk_total_bytes_received, chunk_size) == FALSE

\* while (chunk_total_bytes_received < chunk_size)
PayloadIncomplete(chunk_total_bytes_received, chunk_size) ==
    chunk_total_bytes_received < chunk_size

\* receiveChunks, the loop on the payload: recv(fd, temp, transfer_speed) returns the
\* pending bytes, at most transfer_speed of them, or 0 once the sender has closed.
\* A memcpy past the end of chunk_buffer is undefined: the process dies or goes on.
\* The read that completes the payload calls saveChunk, which inserts the chunk and
\* calls assembleFile under the lock of the store.
recvPayload(q, p, dies) ==
    /\ NetOnly
    /\ conns[<<p, q>>].rphase = "data"
    /\ ~crashed[q]
    /\ LET c == conns[<<p, q>>]
           pending == c.sent - c.rpos
           chunk_bytes_received == Min(c.speed, pending)
           total == c.ctotal + chunk_bytes_received
           local == local_chunks[q] \cup {c.chunk_id}
       IN  /\ pending > 0 \/ c.phase = "closed"
           /\ dies => (pending > 0 /\ total > c.chunk_size)
           /\ IF pending = 0
              THEN /\ conns' = [conns EXCEPT ![<<p, q>>] = [c EXCEPT !.rphase = "done"]]
                   /\ UNCHANGED <<local_chunks, chunk_location_info, assembled, crashed>>
              ELSE IF dies
              THEN /\ crashed' = [crashed EXCEPT ![q] = TRUE]
                   /\ UNCHANGED <<conns, local_chunks, chunk_location_info, assembled>>
              ELSE IF PayloadIncomplete(total, c.chunk_size)
              THEN /\ conns' = [conns EXCEPT ![<<p, q>>] =
                          [c EXCEPT !.ctotal = total, !.rpos = @ + chunk_bytes_received]]
                   /\ UNCHANGED <<local_chunks, chunk_location_info, assembled, crashed>>
              ELSE /\ conns' = [conns EXCEPT ![<<p, q>>] =
                          [c EXCEPT !.ctotal = 0, !.rpos = @ + chunk_bytes_received,
                                    !.rphase = "ctrl",
                                    !.hstart = c.rpos + chunk_bytes_received]]
                   /\ local_chunks' = [local_chunks EXCEPT ![q] = local]
                   /\ IF assembleFile(local, file_chunks[q])
                      THEN /\ assembled' = [assembled EXCEPT ![q] = TRUE]
                           /\ chunk_location_info' =
                                  [chunk_location_info EXCEPT ![q] = NoTable]
                      ELSE UNCHANGED <<assembled, chunk_location_info>>
                   /\ UNCHANGED crashed
    /\ UNCHANGED <<file_chunks, processing_active_map, processing_mutex, search_pc,
                   initial_ttl, net, hist>>

NetSearch == \E p \in Peers : \E metadata_ok \in BOOLEAN : searchFile(p, metadata_ok)

NetDiscover == \E p \in Peers : discoverChunks(p)

NetWait == \E p \in Peers : waitForResponses(p)

NetRequest == \E p \in Peers : sendChunkRequestMessage(p)

NetOnDiscovery == \E p \in Peers : \E m \in BagToSet(net) : processChunkDiscoveryMessage(p, m)

NetOnResponse == \E p \in Peers : \E m \in BagToSet(net) : processMessageResponse(p, m)

NetStoreResponse == \E p \in Peers : processChunkResponseMessage(p)

NetOnRequest == \E p \in Peers : \E m \in BagToSet(net) : processChunkRequestMessage(p, m)

NetSendControl == \E p, q \in Peers : sendControlBlock(p, q)

NetSendChunk == \E p, q \in Peers : sendChunkBlock(p, q)

NetRecvControl == \E p, q \in Peers : recvControl(q, p)

NetRecvPayload == \E p, q \in Peers : \E dies \in BOOLEAN : recvPayload(q, p, dies)

Next ==
    \/ NetSearch
    \/ NetDiscover
    \/ NetWait
    \/ NetRequest
    \/ NetOnDiscovery
    \/ NetOnResponse
    \/ NetStoreResponse
    \/ NetOnRequest
    \/ NetSendControl
    \/ NetSendChunk
    \/ NetRecvControl
    \/ NetRecvPayload

Spec == NetInit /\ [][Next]_vars

(***************************************************************************)
(* Properties of the network of peers                                      *)
(***************************************************************************)
\* A handler of peer p takes a RESPONSE datagram out of the network in this step.
ResponseTaken(p) ==
    \E m \in BagToSet(net) :
        /\ m.kind = "RESPONSE"
        /\ m.dst = p
        /\ CopiesIn(m, net') < CopiesIn(m, net)

\* A handler takes the DISCOVERY datagram m out of the network in this step.
DiscoveryTaken(m) ==
    /\ m.kind = "DISCOVERY"
    /\ CopiesIn(m, net') < CopiesIn(m, net)

\* C1: every step of a RESPONSE handler of a peer (taking the datagram, recording
\* its providers) made while the response window of the peer is false leaves the
\* discovery table of the peer as it was.
C1_ClosedWindowKeepsTable ==
    [][\A p \in Peers :
          ((ResponseTaken(p) \/ processing_mutex[p] # NoDatagram)
              /\ ~processing_active_map[p])
          => chunk_location_info'[p] = chunk_location_info[p]]_vars

\* A peer has dropped a RESPONSE after its window closed and still has its table.
C1_Witness ==
    \E p \in Peers :
        /\ hist[p].response_dropped > 0
        /\ ~processing_active_map[p]
        /\ search_pc[p] \in {"request", "done"}
        /\ chunk_location_info[p].exists

\* C2: the handling of a DISCOVERY whose origin is the receiving peer, whatever its
\* TTL and the chunks the peer holds, only takes the datagram out of the network:
\* no RESPONSE and no DISCOVERY is sent.
C2_OwnDiscoveryIgnored ==
    [][\A m \in BagToSet(net) :
          (DiscoveryTaken(m) /\ m.origin = m.dst) => net' = net (-) SetToBag({m})]_vars

\* A peer that holds chunks has handled a DISCOVERY of its own, with a TTL above 0.
C2_Witness ==
    \E p \in Peers :
        /\ hist[p].own_discovery > 0
        /\ local_chunks[p] # {}
        /\ initial_ttl > 1

\* C8: a peer that held every chunk 0..n-1 when its search started has the file
\* assembled by the search task and has sent no DISCOVERY and no REQUEST.
C8_HolderAssemblesSilently ==
    \A p \in Peers :
        (file_chunks[p] = TotalChunks /\ InRange \subseteq hist[p].held_at_start)
        => /\ assembled[p]
           /\ hist[p].discovery_sent = 0
           /\ hist[p].request_sent = 0

\* Nothing is left to do: no datagram in flight, no handler or search task under
\* way, every push connection closed on both sides.
Quiescent ==
    /\ net = EmptyBag
    /\ \A p \in Peers :
          /\ search_pc[p] \in {"off", "done"}
          /\ processing_mutex[p] = NoDatagram
    /\ \A c \in Peers \X Peers :
          /\ conns[c].phase \in {"none", "closed"}
          /\ conns[c].rphase \in {"none", "done"}

\* C9: once nothing is left to do, a peer whose lacking chunks all had a provider
\* when its window closed has the file assembled (no process having died and the
\* peer having held no chunk file outside 0..n-1).
C9_CoveredSearchAssembles ==
    \A p \in Peers :
        (/\ Quiescent
         /\ hist[p].covered
         /\ hist[p].held_at_start \subseteq InRange
         /\ \A q \in Peers : ~crashed[q])
        => assembled[p]

\* C10: the handling of a DISCOVERY of TTL 0 from another origin takes the datagram
\* out of the network and puts in one RESPONSE to the origin when the peer holds a
\* chunk, nothing when it holds none; no DISCOVERY is sent.
C10_ZeroTtlAnsweredNotForwarded ==
    [][\A m \in BagToSet(net) :
          (DiscoveryTaken(m) /\ m.ttl = 0 /\ m.origin # m.dst)
          => net' = (net (-) SetToBag({m}))
                    (+) (IF local_chunks[m.dst] # {}
                         THEN SetToBag({buildChunkResponseMessage(m.dst, m.origin,
                                            getAvailableChunks(local_chunks[m.dst]))})
                         ELSE EmptyBag)]_vars

\* A peer that holds chunks has handled a DISCOVERY of TTL 0 from another origin,
\* and its RESPONSE to that origin is in flight.
C10_Witness ==
    \E p \in Peers :
        /\ hist[p].zero_ttl_discovery > 0
        /\ local_chunks[p] # {}
        /\ \E m \in BagToSet(net) : m.kind = "RESPONSE" /\ m.src = p

\* The datagrams of a kind that a step adds to the network.
SentIn(kind) ==
    LET added == net' (-) net
    IN  [m \in {x \in DOMAIN added : x.kind = kind} |-> added[m]]

\* C11: the handling of a DISCOVERY of TTL above 0 from another origin puts in the
\* network one DISCOVERY for each neighbour of the receiver, the neighbour the
\* datagram came from included, with the TTL less 1 and the total_chunks and the
\* origin of the datagram handled, and no other DISCOVERY.
C11_ForwardedOnceToEveryNeighbour ==
    [][\A m \in BagToSet(net) :
          (DiscoveryTaken(m) /\ m.ttl > 0 /\ m.origin # m.dst)
          => SentIn("DISCOVERY") =
                [d \in {[kind |-> "DISCOVERY", src |-> m.dst, dst |-> n,
                         total_chunks |-> m.total_chunks, ttl |-> m.ttl - 1,
                         origin |-> m.origin, rate |-> 0, chunks |-> <<>>] :
                           n \in udpNeighbors(m.dst)} |-> 1]]_vars

\* The middle peer has forwarded a DISCOVERY of the peer at one end: the copy for
\* the far end and the copy sent back to the origin are both in flight.
C11_Witness ==
    \E m, b \in BagToSet(net) :
        /\ m.kind = "DISCOVERY" /\ b.kind = "DISCOVERY"
        /\ m.src = b.src /\ m.src # m.origin /\ m.origin = b.origin
        /\ b.dst = b.origin
        /\ m.dst # m.origin
        /\ m.ttl = initial_ttl - 1 /\ b.ttl = initial_ttl - 1
        /\ m.total_chunks = TotalChunks

\* C12: the handling of a DISCOVERY from another origin by a peer that holds a chunk
\* puts in the network one RESPONSE, from the peer to the origin named in the
\* datagram, bearing the transfer speed of the peer and listing each chunk the peer
\* holds once and no other chunk; a peer that holds no chunk sends no RESPONSE.
C12_ResponseToOriginListsLocalChunks ==
    [][\A m \in BagToSet(net) :
          (DiscoveryTaken(m) /\ m.origin # m.dst)
          => IF local_chunks[m.dst] = {}
             THEN SentIn("RESPONSE") = EmptyBag
             ELSE \E r \in DOMAIN SentIn("RESPONSE") :
                     /\ SentIn("RESPONSE") = [x \in {r} |-> 1]
                     /\ r.src = m.dst
                     /\ r.dst = m.origin
                     /\ r.rate = transfer_speed(m.dst)
                     /\ {r.chunks[i] : i \in 1..Len(r.chunks)} = local_chunks[m.dst]
                     /\ Len(r.chunks) = Cardinality(local_chunks[m.dst])]_vars

\* A RESPONSE is in flight to an origin that is not a neighbour of its sender (the
\* DISCOVERY reached the sender through the middle peer), listing every chunk file
\* of the sender; and a peer that holds nothing has handled a DISCOVERY of TTL 0.
C12_Witness ==
    /\ \E r \in BagToSet(net) :
          /\ r.kind = "RESPONSE"
          /\ r.dst \notin udpNeighbors(r.src)
          /\ r.rate = transfer_speed(r.src)
          /\ Len(r.chunks) = Cardinality(ChunkIds)
    /\ \E p \in Peers : hist[p].zero_ttl_discovery > 0 /\ local_chunks[p] = {}

\* The peers within n hops of peer o in the neighbour graph.
RECURSIVE Within(_, _)
Within(o, n) ==
    IF n = 0 THEN {o}
    ELSE LET w == Within(o, n - 1)
         IN  w \cup UNION {udpNeighbors(q) : q \in w}

\* The search task of peer o has sent its DISCOVERY datagrams.
Flooded(o) == search_pc[o] \in {"wait", "request", "done"} /\ hist[o].discovery_sent > 0

\* C13: with initial TTL t, a DISCOVERY is delivered only to peers within t + 1 hops
\* of the searching peer; every DISCOVERY in flight has a TTL from 0 to t, so it was
\* forwarded at most t times; and once nothing is left to do, every other peer
\* within t + 1 hops of a peer that flooded has been delivered a DISCOVERY.
C13_FloodReachesTtlPlusOneHops ==
    \A o \in Peers :
        search_pc[o] # "off"
        => /\ \A q \in Peers \ {o} :
                 hist[q].discovery_received => q \in Within(o, initial_ttl + 1)
           /\ \A m \in BagToSet(net) :
                 m.kind = "DISCOVERY" => (m.ttl >= 0 /\ m.ttl <= initial_ttl)
           /\ (Quiescent /\ Flooded(o))
                 => \A q \in Within(o, initial_ttl + 1) \ {o} : hist[q].discovery_received

\* Nothing is left to do after a flood of TTL 1 from an end of the line: the peer at
\* the other end, 2 hops away, was delivered a DISCOVERY.
C13_Witness ==
    \E o, q \in Peers :
        /\ Quiescent
        /\ Flooded(o)
        /\ initial_ttl = 1
        /\ q \in Within(o, 2) \ Within(o, 1)
        /\ hist[q].discovery_received

\* The search task of peer p sends its REQUEST datagrams in this step.
RequestStep(p) == search_pc[p] = "request" /\ search_pc'[p] = "done"

\* How often chunk i is listed in the REQUEST datagrams of a set.
ListedIn(requests, i) ==
    Cardinality({<<r, k>> \in UNION {{r} \X (1..Len(r.chunks)) : r \in requests} :
                    r.chunks[k] = i})

\* C15: the step of a search task that sends the REQUESTs puts in the network exactly
\* one datagram for each provider of the plan (the map selectPeersForChunkDownload
\* returns), carrying the chunk list the plan holds for that provider and nothing else;
\* each lists only chunks the table records that provider for, every chunk of the
\* table that has a provider is listed once in all, and each provider addressed is the
\* sender of a RESPONSE taken while the window was true, so a provider whose RESPONSE
\* came only after the window closed gets no REQUEST.
C15_OneRequestPerPlannedProvider ==
    [][\A p \in Peers :
          RequestStep(p)
          => LET requests == DOMAIN SentIn("REQUEST")
                 info == chunk_location_info[p].info
             IN  /\ \A r \in requests :
                       /\ SentIn("REQUEST")[r] = 1
                       /\ r.src = p
                       /\ r.dst \in hist[p].answered_in_window
                       /\ \A k \in 1..Len(r.chunks) :
                             /\ r.chunks[k] + 1 \in 1..Len(info)
                             /\ <<r.dst, udp_port(r.dst)>> \in ProvidersOf(info, r.chunks[k])
                       /\ \A q \in requests : q.dst = r.dst => q = r
                 /\ \A i \in 0..(Len(info) - 1) :
                       ListedIn(requests, i) = (IF info[i + 1] # <<>> THEN 1 ELSE 0)
                 /\ \E plan \in selectPeersForChunkDownload(info) :
                       /\ \A key \in DOMAIN plan :
                             \E r \in requests : r.dst = key[1] /\ r.chunks = plan[key]
                       /\ \A r \in requests :
                             \E key \in DOMAIN plan : r.dst = key[1] /\ r.chunks = plan[key]]_vars

\* A search task has sent a REQUEST to a provider that answered in the window and
\* none to a peer that holds chunks and answered only after the window closed.
C15_Witness ==
    \E p, q \in Peers :
        /\ search_pc[p] = "done"
        /\ hist[p].request_sent > 0
        /\ hist[p].response_dropped > 0
        /\ q # p
        /\ local_chunks[q] # {}
        /\ hist[q].discovery_received
        /\ q \notin hist[p].answered_in_window
        /\ \A m \in BagToSet(net) : m.kind # "RESPONSE"
        /\ \E r \in BagToSet(net) : r.kind = "REQUEST" /\ r.src = p /\ r.dst # q

\* C20: while receiveChunks reads the payload of a frame, the bytes it took as the
\* control header of that frame are CONTROL_MESSAGE_MAX_SIZE bytes: those read so
\* far, less the payload bytes counted, end 1024 bytes after the start of the header.
C20_HeaderIsExactly1024Bytes ==
    \A c \in Peers \X Peers :
        conns[c].rphase = "data"
        => conns[c].rpos - conns[c].ctotal = conns[c].hstart + CONTROL_MESSAGE_MAX_SIZE

\* C24: a peer that closed its window with a chunk it lacks left without provider
\* sends no REQUEST that lists the chunk, never comes to hold it and never has the
\* file assembled.
C24_UncoveredChunkNeverRequested ==
    \A p \in Peers :
        hist[p].uncovered # {}
        => /\ ~assembled[p]
           /\ hist[p].uncovered \cap local_chunks[p] = {}
           /\ \A r \in BagToSet(net) :
                 (r.kind = "REQUEST" /\ r.src = p)
                 => \A k \in 1..Len(r.chunks) : r.chunks[k] \notin hist[p].uncovered

\* A search that closed its window with one chunk covered and another not has run
\* to its end: the covered chunk was requested and received, the file is not there.
C24_Witness ==
    \E p \in Peers :
        /\ Quiescent
        /\ hist[p].uncovered # {}
        /\ hist[p].request_sent > 0
        /\ local_chunks[p] # hist[p].held_at_start
        /\ ~assembled[p]
        /\ \A q \in Peers : ~crashed[q]

\* C21: a read of the payload loop of receiveChunks that starts right after a header
\* of exactly CONTROL_MESSAGE_MAX_SIZE bytes, or after earlier reads of the same
\* payload, takes from the stream no more than the payload bytes still missing, so
\* the running total never passes chunk_size and no byte of the next frame is taken.
C21_PayloadIsExactlyChunkSize ==
    [][\A c \in Peers \X Peers :
          (/\ conns[c].rphase = "data"
           /\ conns[c].rpos - conns[c].ctotal = conns[c].hstart + CONTROL_MESSAGE_MAX_SIZE)
          => conns'[c].rpos - conns[c].rpos <= conns[c].chunk_size - conns[c].ctotal]_vars

\* A RESPONSE handler of peer p runs processChunkResponseMessage in this step.
StoreStep(p) == processing_mutex[p] # NoDatagram /\ processing_mutex'[p] = NoDatagram

\* The providers recorded for the chunk at position i of the table of p (none when
\* the table has no such position).
ListAt(table, i) == IF i \in 1..Len(table.info) THEN table.info[i] ELSE <<>>

\* C31: the step of a RESPONSE handler that records providers keeps the records the
\* table has and adds records only for chunks the RESPONSE lists and the peer does not
\* hold at that step; every record added bears the address the datagram came from and
\* the rate of the message.
C31_OnlyLackedChunksRecorded ==
    [][\A p \in Peers :
          StoreStep(p) =>
              LET m == processing_mutex[p]
                  old == chunk_location_info[p]
                  new == chunk_location_info'[p]
              IN  \A i \in 1..Len(new.info) :
                      /\ Len(ListAt(old, i)) <= Len(new.info[i])
                      /\ \A k \in 1..Len(new.info[i]) :
                            IF k <= Len(ListAt(old, i))
                            THEN new.info[i][k] = old.info[i][k]
                            ELSE /\ (i - 1) \notin local_chunks[p]
                                 /\ \E j \in 1..Len(m.chunks) : m.chunks[j] = i - 1
                                 /\ new.info[i][k] =
                                        ChunkLocationInfo(m.src, udp_port(m.src), m.rate)]_vars

\* A peer that held chunk 0 when its search started has recorded, for chunk 1, a
\* provider that holds chunks 0 and 1, and has no provider for chunk 0.
C31_Witness ==
    \E p, q \in Peers :
        /\ 0 \in hist[p].held_at_start
        /\ {0, 1} \subseteq local_chunks[q]
        /\ chunk_location_info[p].exists
        /\ chunk_location_info[p].info[1] = <<>>
        /\ \E k \in 1..Len(chunk_location_info[p].info[2]) :
              chunk_location_info[p].info[2][k] =
                  ChunkLocationInfo(q, udp_port(q), transfer_speed(q))

\* The receiver of the connection from p to q calls saveChunk in this step.
SaveStep(p, q) == conns[<<p, q>>].rphase = "data" /\ conns'[<<p, q>>].rphase = "ctrl"

\* A recv of the receiver of the connection from p to q returns 0 in this step: the
\* sender has closed and nothing is pending.
ClosedStep(p, q) ==
    conns[<<p, q>>].rphase \in {"ctrl", "data"} /\ conns'[<<p, q>>].rphase = "done"

\* C32: the local chunk set of a peer changes only in a step of a stream receiver
\* that has counted chunk_size bytes in its payload loop, the stream being consumed
\* up to the end of the payload of the frame whose header it parsed, and the chunk
\* added is the one of that header; a recv that finds the connection closed, in the
\* middle of a header or of a payload, ends the receiver and leaves the set as it was.
C32_SaveOnlyOnCompletePayload ==
    [][\A q \in Peers :
          /\ local_chunks'[q] # local_chunks[q]
             => \E p \in Peers :
                   LET c == conns[<<p, q>>]
                       d == conns'[<<p, q>>]
                   IN  /\ SaveStep(p, q)
                       /\ local_chunks'[q] = local_chunks[q] \cup {c.chunk_id}
                       /\ c.ctotal + (d.rpos - c.rpos) >= c.chunk_size
                       /\ d.rpos >= c.hstart + CONTROL_MESSAGE_MAX_SIZE + c.chunk_size
          /\ \A p \in Peers :
                ClosedStep(p, q) => local_chunks'[q] = local_chunks[q]]_vars

\* A receiver has saved a chunk, and a receiver of the same peer has ended on a
\* closed connection in the middle of the payload of a chunk the peer does not hold.
C32_Witness ==
    \E p, q \in Peers :
        /\ local_chunks[q] # hist[q].held_at_start
        /\ conns[<<p, q>>].rphase = "done"
        /\ conns[<<p, q>>].ctotal > 0
        /\ conns[<<p, q>>].chunk_id \notin local_chunks[q]

\* C33: on the connection that serves a REQUEST the receiver calls saveChunk once for
\* every frame, in the order of the frames: a call is for the chunk of the frame
\* whose header was parsed, the chunks of the frames before it are saved and those of
\* the frames from it on are not, and when the receiver finds the connection closed
\* the chunk of every frame has been saved.
C33_PushOrderPreserved ==
    [][\A p, q \in Peers :
          LET c == conns[<<p, q>>]
              j == FrameAt(c.frames, c.hstart)
          IN  /\ SaveStep(p, q)
                 => /\ j # 0
                    /\ c.chunk_id = c.frames[j]
                    /\ \A i \in 1..(j - 1) : c.frames[i] \in local_chunks[q]
                    /\ \A i \in j..Len(c.frames) : c.frames[i] \notin local_chunks[q]
              /\ ClosedStep(p, q)
                 => \A i \in 1..Len(c.frames) : c.frames[i] \in local_chunks[q]]_vars

\* The search task of peer p emits its DISCOVERY datagrams in this step.
DiscoverStep(p) == search_pc[p] = "discover" /\ search_pc'[p] = "wait"

\* C35: when the search task of a peer emits its DISCOVERY the response window of
\* the peer is true and its discovery table has total_chunks lists, all empty; no
\* DISCOVERY bears the address of a peer whose search has not got that far, and a
\* handler takes a RESPONSE only on a peer whose search has emitted its DISCOVERY,
\* so after the window was opened.
C35_WindowOpenBeforeDiscovery ==
    [][\A p \in Peers :
          /\ DiscoverStep(p)
             => /\ processing_active_map[p]
                /\ chunk_location_info[p].exists
                /\ Len(chunk_location_info[p].info) = TotalChunks
                /\ \A i \in 1..TotalChunks : chunk_location_info[p].info[i] = <<>>
          /\ \A m \in BagToSet(net') :
                m.kind = "DISCOVERY" => search_pc'[m.origin] \in {"wait", "request", "done"}
          /\ ResponseTaken(p) => search_pc[p] \in {"wait", "request", "done"}]_vars

\* A peer whose search has emitted its DISCOVERY has taken a RESPONSE while its
\* window was true and recorded the sender.
C35_Witness ==
    \E p \in Peers :
        /\ hist[p].discovery_sent > 0
        /\ hist[p].answered_in_window # {}
        /\ chunk_location_info[p].exists
        /\ \E i \in 1..Len(chunk_location_info[p].info) :
              chunk_location_info[p].info[i] # <<>>

\* The control plane of the network of peers, without the push connections, with
\* its DISCOVERY handlers scheduled: UDPServer::run hands every datagram it receives
\* to a thread of its own, which runs to its end.
FloodNext ==
    \/ NetSearch
    \/ NetDiscover
    \/ NetWait
    \/ NetRequest
    \/ NetOnDiscovery
    \/ NetOnResponse
    \/ NetStoreResponse

SpecFlood == NetInit /\ [][FloodNext]_vars /\ WF_vars(NetOnDiscovery)

\* A DISCOVERY datagram is on its way to a peer whose process is alive.
DiscoveryInFlight ==
    \E m \in BagToSet(net) : m.kind = "DISCOVERY" /\ ~crashed[m.dst]

\* C36: the handling of a DISCOVERY puts in the network only DISCOVERY datagrams
\* whose TTL is one less than the TTL of the datagram handled and not below 0, and
\* from some point on no DISCOVERY is in flight.
C36_FloodTerminates ==
    /\ [][\A m \in BagToSet(net) :
             DiscoveryTaken(m)
             => \A d \in DOMAIN SentIn("DISCOVERY") : d.ttl = m.ttl - 1 /\ d.ttl >= 0]_vars
    /\ <>[]~DiscoveryInFlight

\* A flood of TTL 2 has run out: a peer has handled a DISCOVERY of TTL 0 from
\* another origin and no DISCOVERY is left in the network.
C36_Witness ==
    /\ initial_ttl = 2
    /\ \E p \in Peers : hist[p].zero_ttl_discovery > 0
    /\ \A m \in BagToSet(net) : m.kind # "DISCOVERY"

\* C39: no peer sends a RESPONSE or a REQUEST to its own control endpoint, and the
\* discovery table of no peer lists the peer itself as a provider.
C39_NothingToSelf ==
    /\ [][\A m \in DOMAIN SentIn("RESPONSE") \cup DOMAIN SentIn("REQUEST") :
             m.src # m.dst]_vars
    /\ [](\A p \in Peers :
             chunk_location_info[p].exists
             => \A i \in 1..Len(chunk_location_info[p].info) :
                   \A k \in 1..Len(chunk_location_info[p].info[i]) :
                       ~(/\ chunk_location_info[p].info[i][k].ip = p
                         /\ chunk_location_info[p].info[i][k].port = udp_port(p)))

\* A searching peer that holds a chunk has had its own DISCOVERY back from a
\* neighbour, has recorded a provider and has sent a REQUEST.
C39_Witness ==
    \E p \in Peers :
        /\ hist[p].own_discovery > 0
        /\ local_chunks[p] # {}
        /\ hist[p].request_sent > 0
        /\ chunk_location_info[p].exists
        /\ \E i \in 1..Len(chunk_location_info[p].info) :
              chunk_location_info[p].info[i] # <<>>

(***************************************************************************)
(* The search tasks of one peer: Peer::start, searchFile,                  *)
(* discoverAndRequestChunks and the response window of each file name      *)
(***************************************************************************)
\* Constants::DISCOVERY_MESSAGE_INTERVAL_SECONDS and RESPONSE_TIMEOUT_SECONDS.
DISCOVERY_MESSAGE_INTERVAL_SECONDS == 1

RESPONSE_TIMEOUT_SECONDS == 10

\* The last second the clock of the model counts, and the most neighbours the
\* topology file gives the peer.
SearchMaxTime == 13

SearchMaxNeighbours == 2

\* The file names of the command line: the lists Peer::start is given.
SearchFiles == {"f", "g"}

SearchFileLists == {<<"f">>, <<"f", "g">>, <<"f", "f">>}

\* The values an int that was never written can hold.
UninitializedInts == {-2, -1, 0}

\* loadMetadata: the pairs <<total_chunks, initial_ttl>> it can return.  A sidecar
\* that does not open gives the sentinel.  On a sidecar that opens but does not hold
\* the two numbers, a failed extraction writes 0 or, the stream having failed before,
\* leaves the int unwritten: the caller reads an indeterminate value.
loadMetadata(sidecar) ==
    CASE sidecar = "ok" -> {<<TotalChunks, 1>>}
      [] sidecar = "missing" -> {<<-1, -1>>}
      [] sidecar = "malformed" ->
             {<<t, u>> : t \in UninitializedInts \cup {0}, u \in {-1, 0}}

\* A search task: where it is, when its sleep ends, the neighbours it has sent to.
SearchTask(pc, wake, sent) == [pc |-> pc, wake |-> wake, sent |-> sent]

\* The file name of search task i.
FileOf(i) == sr_input.file_names[i]

SearchTasks == DOMAIN sr_task

\* Peer::start has created one search task per file name of the list.  The sidecar
\* of a file is well formed, missing or malformed; the peer holds none or all of the
\* chunk files 0..total-1 of a file.
SearchInit ==
    /\ sr_input \in {[file_names |-> l, neighbours |-> n, metadata |-> m, held |-> h] :
                       l \in SearchFileLists, n \in 0..SearchMaxNeighbours,
                       m \in [SearchFiles -> {"ok", "missing", "malformed"}],
                       h \in [SearchFiles -> {0, TotalChunks}]}
    /\ \A f \in SearchFiles :
          (\A i \in DOMAIN sr_input.file_names : sr_input.file_names[i] # f)
          => (sr_input.metadata[f] = "missing" /\ sr_input.held[f] = 0)
    /\ sr_task = [i \in DOMAIN sr_input.file_names |-> SearchTask("start", 0, 0)]
    /\ sr_file_chunks = [f \in SearchFiles |-> 0]
    /\ sr_chunk_location_info = [f \in SearchFiles |-> "absent"]
    /\ sr_processing_active_map = [f \in SearchFiles |-> "absent"]
    /\ sr_log = [f \in SearchFiles |-> [discovery |-> FALSE, request |-> FALSE]]
    /\ sr_now = 0
    /\ sr_late = FALSE
    /\ sr_dead = FALSE
    /\ PlannerIdle
    /\ StoreIdle
    /\ NetIdle
    /\ FrameIdle
    /\ DatagramIdle
    /\ MapsIdle
    /\ TableIdle
    /\ PushIdle

\* sleep_for has returned: the time is up, or time is no longer counted because a
\* task was kept waiting (every order of the steps is then possible).
TimeUp(i) == sr_late \/ sr_now >= sr_task[i].wake

\* The task has a step to take now.
Ready(i) ==
    \/ sr_task[i].pc \in {"start", "open", "assemble", "request"}
    \/ sr_task[i].pc \in {"send", "close"} /\ sr_now >= sr_task[i].wake

Finished(i) == sr_task[i].pc \in {"done", "assembled", "abandoned"}

\* Peer::searchFile up to the call of discoverAndRequestChunks: loadMetadata, the
\* test on the sentinel, initializeFileChunks and initializeChunkLocationInfo, whose
\* resize to a negative total_chunks throws and ends the process.
SearchLoad(i) ==
    /\ SearchOnly
    /\ ~sr_dead
    /\ sr_task[i].pc = "start"
    /\ \E md \in loadMetadata(sr_input.metadata[FileOf(i)]) :
          IF md[1] = -1 \/ md[2] = -1
          THEN /\ sr_task' = [sr_task EXCEPT ![i].pc = "abandoned"]
               /\ UNCHANGED <<sr_file_chunks, sr_chunk_location_info, sr_dead>>
          ELSE /\ sr_file_chunks' = [sr_file_chunks EXCEPT ![FileOf(i)] = md[1]]
               /\ IF sr_chunk_location_info[FileOf(i)] # "absent"
                  THEN UNCHANGED <<sr_chunk_location_info, sr_dead>>
                  ELSE IF md[1] < 0
                  THEN sr_dead' = TRUE /\ UNCHANGED sr_chunk_location_info
                  ELSE /\ sr_chunk_location_info' =
                              [sr_chunk_location_info EXCEPT ![FileOf(i)] =
                                  IF md[1] = 0 THEN "zero" ELSE "empty"]
                       /\ UNCHANGED sr_dead
               /\ sr_task' = [sr_task EXCEPT ![i].pc = "open"]
    /\ UNCHANGED <<sr_input, sr_processing_active_map, sr_log, sr_now, sr_late>>

\* initializeProcessingActive: under processing_mutex, the window becomes true.
SearchOpen(i) ==
    /\ SearchOnly
    /\ ~sr_dead
    /\ sr_task[i].pc = "open"
    /\ sr_processing_active_map' = [sr_processing_active_map EXCEPT ![FileOf(i)] = "true"]
    /\ sr_task' = [sr_task EXCEPT ![i].pc = "assemble"]
    /\ UNCHANGED <<sr_input, sr_file_chunks, sr_chunk_location_info, sr_log, sr_now,
                   sr_late, sr_dead>>

\* The assembleFile of discoverAndRequestChunks: with as many chunk files as
\* file_chunks says, the file is assembled, the table cleared and the task ends;
\* otherwise the task goes on to the flood, or to the wait when it has no neighbour.
SearchAssemble(i) ==
    /\ SearchOnly
    /\ ~sr_dead
    /\ sr_task[i].pc = "assemble"
    /\ IF sr_input.held[FileOf(i)] = sr_file_chunks[FileOf(i)]
       THEN /\ sr_chunk_location_info' =
                   [sr_chunk_location_info EXCEPT ![FileOf(i)] = "absent"]
            /\ sr_task' = [sr_task EXCEPT ![i].pc = "assembled"]
       ELSE /\ sr_task' = [sr_task EXCEPT ![i] =
                   IF sr_input.neighbours = 0
                   THEN SearchTask("close", sr_now + RESPONSE_TIMEOUT_SECONDS, 0)
                   ELSE SearchTask("send", sr_now, 0)]
            /\ UNCHANGED sr_chunk_location_info
    /\ UNCHANGED <<sr_input, sr_file_chunks, sr_processing_active_map, sr_log, sr_now,
                   sr_late, sr_dead>>

\* sendChunkDiscoveryMessage: one datagram to the next neighbour, then the sleep of
\* the interval; after the last neighbour, waitForResponses sleeps the timeout.
SearchSend(i) ==
    /\ SearchOnly
    /\ ~sr_dead
    /\ sr_task[i].pc = "send"
    /\ TimeUp(i)
    /\ sr_log' = [sr_log EXCEPT ![FileOf(i)].discovery = TRUE]
    /\ sr_task' = [sr_task EXCEPT ![i] =
           IF sr_task[i].sent + 1 = sr_input.neighbours
           THEN SearchTask("close", sr_now + DISCOVERY_MESSAGE_INTERVAL_SECONDS
                                           + RESPONSE_TIMEOUT_SECONDS, @.sent + 1)
           ELSE SearchTask("send", sr_now + DISCOVERY_MESSAGE_INTERVAL_SECONDS,
                           @.sent + 1)]
    /\ UNCHANGED <<sr_input, sr_file_chunks, sr_chunk_location_info,
                   sr_processing_active_map, sr_now, sr_late, sr_dead>>

\* waitForResponses after its sleep: under processing_mutex, the window becomes false.
SearchClose(i) ==
    /\ SearchOnly
    /\ ~sr_dead
    /\ sr_task[i].pc = "close"
    /\ TimeUp(i)
    /\ sr_processing_active_map' = [sr_processing_active_map EXCEPT ![FileOf(i)] = "false"]
    /\ sr_task' = [sr_task EXCEPT ![i].pc = "request"]
    /\ UNCHANGED <<sr_input, sr_file_chunks, sr_chunk_location_info, sr_log, sr_now,
                   sr_late, sr_dead>>

\* sendChunkRequestMessage: chunk_location_info.at throws when the file has no
\* entry; a REQUEST goes to each provider of the plan, if any was recorded.
SearchRequest(i) ==
    /\ SearchOnly
    /\ ~sr_dead
    /\ sr_task[i].pc = "request"
    /\ IF sr_chunk_location_info[FileOf(i)] = "absent"
       THEN sr_dead' = TRUE /\ UNCHANGED <<sr_log, sr_task>>
       ELSE /\ sr_log' = [sr_log EXCEPT ![FileOf(i)].request =
                             @ \/ sr_chunk_location_info[FileOf(i)] = "recorded"]
            /\ sr_task' = [sr_task EXCEPT ![i].pc = "done"]
            /\ UNCHANGED sr_dead
    /\ UNCHANGED <<sr_input, sr_file_chunks, sr_chunk_location_info,
                   sr_processing_active_map, sr_now, sr_late>>

\* The test of processMessage on the window of the file name, always true.
SearchWindowOpenAlways(f) == TRUE

\* if (processing_active_map[file_name]): an entry that does not exist counts as false.
SearchWindowOpen(f) == sr_processing_active_map[f] = "true"

\* processMessage on a RESPONSE for file name f that lists every chunk of the file:
\* processing_active_map[f] makes a false entry when there is none; with the window
\* true the sender is recorded for the chunks the peer lacks, in the entry of the
\* table, which chunk_location_info[f] makes, with no slot, when there is none.
SearchResponse(f) ==
    /\ SearchOnly
    /\ ~sr_dead
    /\ IF SearchWindowOpen(f)
       THEN /\ sr_chunk_location_info' = [sr_chunk_location_info EXCEPT ![f] =
                   IF sr_input.held[f] = TotalChunks THEN @
                   ELSE IF @ = "absent" THEN "zero"
                   ELSE IF @ = "empty" THEN "recorded"
                   ELSE @]
            /\ UNCHANGED sr_processing_active_map
       ELSE /\ sr_processing_active_map' = [sr_processing_active_map EXCEPT ![f] = "false"]
            /\ UNCHANGED sr_chunk_location_info
    /\ UNCHANGED <<sr_input, sr_task, sr_file_chunks, sr_log, sr_now, sr_late, sr_dead>>

\* saveChunk called by a stream receiver with the last chunk of f the peer lacked,
\* pushed by a provider that a REQUEST of f reached: the chunk is held and
\* assembleFile, finding as many chunks as file_chunks says, assembles the file and
\* clears the table.
SearchSave(f) ==
    /\ SearchOnly
    /\ ~sr_dead
    /\ sr_log[f].request
    /\ sr_file_chunks[f] = TotalChunks
    /\ sr_input.held[f] # TotalChunks
    /\ sr_input' = [sr_input EXCEPT !.held[f] = TotalChunks]
    /\ sr_chunk_location_info' = [sr_chunk_location_info EXCEPT ![f] = "absent"]
    /\ UNCHANGED <<sr_task, sr_file_chunks, sr_processing_active_map, sr_log, sr_now,
                   sr_late, sr_dead>>

\* A second passes while every task sleeps.
SearchTick ==
    /\ SearchOnly
    /\ ~sr_dead
    /\ ~sr_late
    /\ sr_now < SearchMaxTime
    /\ \E i \in SearchTasks : ~Finished(i)
    /\ \A i \in SearchTasks : ~Ready(i)
    /\ sr_now' = sr_now + 1
    /\ UNCHANGED <<sr_input, sr_task, sr_file_chunks, sr_chunk_location_info,
                   sr_processing_active_map, sr_log, sr_late, sr_dead>>

\* The scheduler keeps a task that could run waiting: sleep_for lasts at least its
\* duration and nothing bounds the time a step takes.
SearchDelay ==
    /\ SearchOnly
    /\ ~sr_dead
    /\ ~sr_late
    /\ \E i \in SearchTasks : Ready(i) /\ ~Finished(i)
    /\ sr_late' = TRUE
    /\ UNCHANGED <<sr_input, sr_task, sr_file_chunks, sr_chunk_location_info,
                   sr_processing_active_map, sr_log, sr_now, sr_dead>>

SearchDoLoad == \E i \in SearchTasks : SearchLoad(i)

SearchDoOpen == \E i \in SearchTasks : SearchOpen(i)

SearchDoAssemble == \E i \in SearchTasks : SearchAssemble(i)

SearchDoSend == \E i \in SearchTasks : SearchSend(i)

SearchDoClose == \E i \in SearchTasks : SearchClose(i)

SearchDoRequest == \E i \in SearchTasks : SearchRequest(i)

SearchOnResponse == \E f \in SearchFiles : SearchResponse(f)

SearchOnSave == \E f \in SearchFiles : SearchSave(f)

SearchNext ==
    \/ SearchDoLoad
    \/ SearchDoOpen
    \/ SearchDoAssemble
    \/ SearchDoSend
    \/ SearchDoClose
    \/ SearchDoRequest
    \/ SearchOnResponse
    \/ SearchOnSave
    \/ SearchTick
    \/ SearchDelay

SpecSearch == SearchInit /\ [][SearchNext]_vars

(***************************************************************************)
(* Properties of the search tasks                                          *)
(***************************************************************************)
\* Search task i sends its REQUEST datagrams in this step.
RequestSentBy(i) ==
    /\ sr_task[i].pc = "request"
    /\ sr_task'[i].pc = "done"
    /\ sr_chunk_location_info[FileOf(i)] = "recorded"

\* C14: no search task sends a REQUEST for a file name while the response window of
\* that file name is true.
C14_NoRequestWhileWindowOpen ==
    [][\A i \in SearchTasks :
          RequestSentBy(i) => sr_processing_active_map[FileOf(i)] # "true"]_vars

\* A search task of file name f went on to the flood and none has closed the window
\* or is due to close it now.
FloodUnderWay(f) ==
    /\ \E i \in SearchTasks : FileOf(i) = f /\ sr_task[i].pc \in {"send", "close"}
    /\ \A i \in SearchTasks :
          FileOf(i) = f => sr_task[i].pc \in {"send", "close"} /\ ~Ready(i)

\* C16: with every task running as soon as its sleep ends, once more than the
\* response timeout has passed since the search tasks started, the window of a file
\* name whose search went on to the flood is no longer true.
C16_WindowClosedAfterTimeout ==
    \A f \in SearchFiles :
        (~sr_late /\ sr_now > RESPONSE_TIMEOUT_SECONDS /\ FloodUnderWay(f))
        => sr_processing_active_map[f] # "true"

\* C17: a response window that is false does not become true.
C17_ClosedWindowStaysClosed ==
    [][\A f \in SearchFiles :
          sr_processing_active_map[f] = "false"
          => sr_processing_active_map'[f] # "true"]_vars

\* C18: once every search task has ended, the response window of no file name with
\* a well formed sidecar is true.
C18_OpenedWindowIsClosed ==
    (~sr_dead /\ \A i \in SearchTasks : Finished(i))
    => \A f \in SearchFiles :
          sr_input.metadata[f] = "ok" => sr_processing_active_map[f] # "true"

\* C19: for a file name whose sidecar is missing or malformed, the table has no
\* entry, the window is never true and no DISCOVERY or REQUEST is sent; and the
\* process, with the searches of the other file names, lives on.
C19_BadMetadataAbandonsSearch ==
    /\ \A f \in SearchFiles :
          sr_input.metadata[f] # "ok"
          => /\ sr_chunk_location_info[f] = "absent"
             /\ sr_processing_active_map[f] # "true"
             /\ ~sr_log[f].discovery
             /\ ~sr_log[f].request
    /\ (\E f \in SearchFiles : sr_input.metadata[f] # "ok") => ~sr_dead

\* C38: selectPeersForChunkDownload(f) is never executed after the discovery table of
\* f has been destroyed by clearChunkLocationInfo(f): whenever a search task is about
\* to send its REQUESTs, in any interleaving with the other search tasks, the table
\* of its file exists.
C38_PlannerFindsTable ==
    \A i \in SearchTasks :
        (~sr_dead /\ sr_task # <<>> /\ sr_task[i].pc = "request")
            => sr_chunk_location_info[FileOf(i)] # "absent"

\* The file name is in the list Peer::start was given: a search of it is started.
Searched(f) == \E i \in DOMAIN sr_input.file_names : sr_input.file_names[i] = f

\* C40: a RESPONSE for a file of which the peer has never started a search is
\* dropped: the file has no discovery table, no provider is recorded for it, no
\* REQUEST of it is sent and its window is never true.
C40_UnsearchedResponseDropped ==
    \A f \in SearchFiles :
        (sr_input # <<>> /\ ~Searched(f))
            => /\ sr_chunk_location_info[f] = "absent"
               /\ ~sr_log[f].request
               /\ sr_processing_active_map[f] # "true"

\* A RESPONSE for a file name that is not in the list has been handled, while the
\* search of the listed file has recorded a provider and sent its REQUEST.
C40_Witness ==
    /\ sr_input # <<>>
    /\ \E f, g \in SearchFiles :
          /\ Searched(f) /\ sr_log[f].request
          /\ ~Searched(g) /\ sr_processing_active_map[g] = "false"
    /\ ~sr_dead

(***************************************************************************)
(* One push of one chunk: TCPServer::sendChunks and the header extraction  *)
(* of TCPServer::receiveChunks                                             *)
(***************************************************************************)
\* The longest file name tried.
FrameMaxName == 1013

\* The lengths of file name tried: a short one and those that bring the control
\* header to the size of its buffer.
FrameNameLens == {1} \cup {n \in 1..FrameMaxName : n + 17 >= CONTROL_MESSAGE_MAX_SIZE}

\* The chunk ids, transfer speeds and chunk file sizes tried.
FrameChunkIds == {0, 10}

FrameSpeeds == {64, 600, 1024}

FrameChunkSizes == {0, 256, 700}

\* operator<< of an int or a size_t on a stringstream: the decimal digits.
DigitChar(d) == <<"0", "1", "2", "3", "4", "5", "6", "7", "8", "9">>[d + 1]

RECURSIVE Decimal(_)
Decimal(n) == IF n < 10 THEN <<DigitChar(n)>> ELSE Decimal(n \div 10) \o <<DigitChar(n % 10)>>

\* ss << "PUT " << file_name << " " << chunk << " " << transfer_speed << " " << chunk_size
ControlMessage(file_name, chunk, speed, chunk_size) ==
    <<"P", "U", "T", " ">> \o file_name \o <<" ">> \o Decimal(chunk) \o <<" ">>
        \o Decimal(speed) \o <<" ">> \o Decimal(chunk_size)

\* The control message sendChunks builds for the input of the run.
FrameMessage ==
    ControlMessage([i \in 1..fr_input.name_len |-> "a"], fr_input.chunk,
                   fr_input.transfer_speed, fr_input.chunk_size)

\* The mutant of bytes_to_copy that keeps one byte more than the terminator free.
bytes_to_copy_short(control_message) == Min(Len(control_message), CONTROL_MESSAGE_MAX_SIZE - 2)

\* std::min(control_message.size(), sizeof(control_message_buffer) - 1)
bytes_to_copy(control_message) == Min(Len(control_message), CONTROL_MESSAGE_MAX_SIZE - 1)

\* char control_message_buffer[CONTROL_MESSAGE_MAX_SIZE] = {0}, the memcpy of the
\* first bytes_to_copy bytes and the terminator written after them.
control_message_buffer(control_message) ==
    [i \in 1..CONTROL_MESSAGE_MAX_SIZE |->
        IF i <= bytes_to_copy(control_message) THEN control_message[i] ELSE "NUL"]

\* std::min(transfer_speed, CONTROL_MESSAGE_MAX_SIZE - total_bytes_sent)
HeaderBlock(speed, total_bytes_sent) == Min(speed, CONTROL_MESSAGE_MAX_SIZE - total_bytes_sent)

\* The mutant of ChunkBlock that sends what is left of the chunk in one block.
ChunkBlockWhole(speed, chunk_size, total_bytes_sent) == chunk_size - total_bytes_sent

\* std::min(static_cast<size_t>(transfer_speed), chunk_size - total_bytes_sent)
ChunkBlock(speed, chunk_size, total_bytes_sent) == Min(speed, chunk_size - total_bytes_sent)

\* What the stringstream extraction of receiveChunks sees of the bytes of a header:
\* the tokens end at the first NUL, so the header is the bytes before it.
StripNul(bytes) ==
    IF \E i \in 1..Len(bytes) : bytes[i] = "NUL"
    THEN SubSeq(bytes, 1, (CHOOSE i \in 1..Len(bytes) :
                              /\ bytes[i] = "NUL"
                              /\ \A j \in 1..(i - 1) : bytes[j] # "NUL") - 1)
    ELSE bytes

\* A block as the log of sendChunks reports it, with the second it was sent in.
Block(part, bytes, at) == [part |-> part, bytes |-> bytes, at |-> at]

FrameInit ==
    /\ fr_input \in [name_len : FrameNameLens, chunk : FrameChunkIds,
                     transfer_speed : FrameSpeeds, chunk_size : FrameChunkSizes]
    /\ fr_pc = "open"
    /\ fr_buffer = <<>>
    /\ fr_total_bytes_sent = 0
    /\ fr_wire = <<>>
    /\ fr_blocks = <<>>
    /\ fr_since_sleep = 0
    /\ fr_now = 0
    /\ fr_control_message = <<>>
    /\ PlannerIdle
    /\ StoreIdle
    /\ NetIdle
    /\ SearchIdle
    /\ DatagramIdle
    /\ MapsIdle
    /\ TableIdle
    /\ PushIdle

\* sendChunks, the body of the loop up to the first send: the chunk file is opened
\* and read, or is not found and the loop goes on to the end of the chunk list; the
\* control message is built and copied to its buffer.
FrameBuild(found) ==
    /\ FrameOnly
    /\ fr_pc = "open"
    /\ IF found
       THEN /\ fr_buffer' = control_message_buffer(FrameMessage)
            /\ fr_pc' = "header"
       ELSE /\ fr_pc' = "closed"
            /\ UNCHANGED fr_buffer
    /\ UNCHANGED <<fr_input, fr_total_bytes_sent, fr_wire, fr_blocks, fr_since_sleep,
                   fr_now, fr_control_message>>

\* sendChunks, the loop on the control header: the send of one block.
FrameSendControl ==
    /\ FrameOnly
    /\ fr_pc = "header"
    /\ LET bytes_to_send == HeaderBlock(fr_input.transfer_speed, fr_total_bytes_sent)
       IN  /\ fr_wire' = fr_wire \o SubSeq(fr_buffer, fr_total_bytes_sent + 1,
                                           fr_total_bytes_sent + bytes_to_send)
           /\ fr_total_bytes_sent' = fr_total_bytes_sent + bytes_to_send
           /\ fr_blocks' = Append(fr_blocks, Block("header", bytes_to_send, fr_now))
           /\ fr_since_sleep' = fr_since_sleep + bytes_to_send
    /\ fr_pc' = "header_sleep"
    /\ UNCHANGED <<fr_input, fr_buffer, fr_now, fr_control_message>>

\* sendChunks, the loop on the payload: the send of one block.
FrameSendChunk ==
    /\ FrameOnly
    /\ fr_pc = "payload"
    /\ LET bytes_to_send == ChunkBlock(fr_input.transfer_speed, fr_input.chunk_size,
                                       fr_total_bytes_sent)
       IN  /\ fr_total_bytes_sent' = fr_total_bytes_sent + bytes_to_send
           /\ fr_blocks' = Append(fr_blocks, Block("payload", bytes_to_send, fr_now))
           /\ fr_since_sleep' = fr_since_sleep + bytes_to_send
    /\ fr_pc' = "payload_sleep"
    /\ UNCHANGED <<fr_input, fr_buffer, fr_wire, fr_now, fr_control_message>>

\* sendChunks, the sleep of one second that ends each pass of the two loops, and
\* the tests of the loops: the header loop ends when the buffer has been sent and
\* total_bytes_sent is reset, the payload loop when chunk_size bytes have been sent,
\* and the socket is closed after the last chunk.
FrameSleep ==
    /\ FrameOnly
    /\ fr_pc \in {"header_sleep", "payload_sleep"}
    /\ fr_now' = fr_now + 1
    /\ fr_since_sleep' = 0
    /\ IF fr_pc = "header_sleep" /\ fr_total_bytes_sent < CONTROL_MESSAGE_MAX_SIZE
       THEN /\ fr_pc' = "header"
            /\ UNCHANGED fr_total_bytes_sent
       ELSE IF fr_pc = "header_sleep"
       THEN /\ fr_pc' = IF 0 < fr_input.chunk_size THEN "payload" ELSE "closed"
            /\ fr_total_bytes_sent' = 0
       ELSE /\ fr_pc' = IF fr_total_bytes_sent < fr_input.chunk_size THEN "payload"
                        ELSE "closed"
            /\ UNCHANGED fr_total_bytes_sent
    /\ UNCHANGED <<fr_input, fr_buffer, fr_wire, fr_blocks, fr_control_message>>

\* receiveChunks once CONTROL_MESSAGE_MAX_SIZE bytes of the header have come: the
\* extraction of the fields from the bytes received.
FrameExtract ==
    /\ FrameOnly
    /\ Len(fr_wire) = CONTROL_MESSAGE_MAX_SIZE
    /\ fr_control_message = <<>>
    /\ fr_control_message' = StripNul(fr_wire)
    /\ UNCHANGED <<fr_input, fr_pc, fr_buffer, fr_total_bytes_sent, fr_wire, fr_blocks,
                   fr_since_sleep, fr_now>>

FrameDoBuild == \E found \in BOOLEAN : FrameBuild(found)

FrameNext ==
    \/ FrameDoBuild
    \/ FrameSendControl
    \/ FrameSendChunk
    \/ FrameSleep
    \/ FrameExtract

SpecFrame == FrameInit /\ [][FrameNext]_vars

(***************************************************************************)
(* Properties of the push of one chunk                                     *)
(***************************************************************************)
\* C22 as amended: for every control header of at most CONTROL_MESSAGE_MAX_SIZE - 1
\* bytes, the frame on the wire is CONTROL_MESSAGE_MAX_SIZE bytes long and the
\* header the receiver extracts from it, the padding stripped, is the header built.
C22_HeaderRoundTripBelow1024 ==
    (fr_control_message # <<>> /\ Len(FrameMessage) <= CONTROL_MESSAGE_MAX_SIZE - 1)
    => (Len(fr_wire) = CONTROL_MESSAGE_MAX_SIZE /\ fr_control_message = FrameMessage)

\* C22 as stated: the same for every header of at most CONTROL_MESSAGE_MAX_SIZE
\* bytes, one of exactly that length included.
C22_HeaderRoundTripUpTo1024 ==
    (fr_control_message # <<>> /\ Len(FrameMessage) <= CONTROL_MESSAGE_MAX_SIZE)
    => (Len(fr_wire) = CONTROL_MESSAGE_MAX_SIZE /\ fr_control_message = FrameMessage)

\* A header of CONTROL_MESSAGE_MAX_SIZE - 1 bytes has been sent in more than one
\* block and extracted whole.
C22_Witness ==
    /\ Len(FrameMessage) = CONTROL_MESSAGE_MAX_SIZE - 1
    /\ fr_control_message = FrameMessage
    /\ fr_input.transfer_speed < CONTROL_MESSAGE_MAX_SIZE

\* The blocks of one part sent so far, in order.
BlocksOf(part) == SelectSeq(fr_blocks, LAMBDA b : b.part = part)

\* The number of blocks of at most rate bytes that size bytes take.
CeilDiv(size, rate) == (size + rate - 1) \div rate

RECURSIVE SumBytes(_)
SumBytes(blocks) == IF blocks = <<>> THEN 0 ELSE Head(blocks).bytes + SumBytes(Tail(blocks))

\* C23: sendChunks never sends more than transfer_speed bytes between two sleeps,
\* in the header and in the payload: every block is at most transfer_speed bytes and
\* a sleep of a second separates it from the next; once the chunk is sent, its
\* 1024-byte header went in ceil(1024/rate) blocks and its payload of s bytes in
\* ceil(s/rate) blocks, so at least ceil(s/rate) - 1 seconds lie between the first
\* and the last block of the payload.
C23_AtMostRateBytesPerSleep ==
    /\ fr_since_sleep <= fr_input.transfer_speed
    /\ \A k \in 1..Len(fr_blocks) :
          /\ fr_blocks[k].bytes \in 1..fr_input.transfer_speed
          /\ k > 1 => fr_blocks[k].at >= fr_blocks[k - 1].at + 1
    /\ (fr_pc = "closed" /\ fr_blocks # <<>>)
       => LET header == BlocksOf("header")
              payload == BlocksOf("payload")
              rate == fr_input.transfer_speed
          IN  /\ Len(header) = CeilDiv(CONTROL_MESSAGE_MAX_SIZE, rate)
              /\ SumBytes(header) = CONTROL_MESSAGE_MAX_SIZE
              /\ Len(payload) = CeilDiv(fr_input.chunk_size, rate)
              /\ SumBytes(payload) = fr_input.chunk_size
              /\ payload # <<>>
                 => payload[Len(payload)].at - payload[1].at
                       >= CeilDiv(fr_input.chunk_size, rate) - 1

\* A chunk of 256 bytes has been pushed at 64 bytes a second: four blocks, with
\* three sleeps between the first and the last.
C23_Witness ==
    /\ fr_pc = "closed"
    /\ fr_input.transfer_speed = 64
    /\ fr_input.chunk_size = 256
    /\ Len(BlocksOf("payload")) = 4
    /\ BlocksOf("payload")[4].at - BlocksOf("payload")[1].at = 3

(***************************************************************************)
(* One control datagram: the builders, sendUDPMessage and UDPServer::run   *)
(***************************************************************************)
\* The largest number of chunks of a file tried.
DatagramMaxChunks == 290

DatagramKinds == {"DISCOVERY", "RESPONSE", "REQUEST"}

\* The lengths of file name tried.
DatagramNameLens == {1, 8}

\* The bytes of the chunk ids 0..n-1 written each with a space after it, counted
\* by number of digits (ids of up to four digits).
ChunkListSize(n) ==
    LET size(d) == (d + 1) * Cardinality({i \in 0..(n - 1) : Len(Decimal(i)) = d})
    IN  size(1) + size(2) + size(3) + size(4)

\* The size of the string a builder returns for a file of n chunks, all of them
\* listed: "DISCOVERY <file> <total_chunks> <ttl> <ip>:<port>" from an origin at
\* 127.0.0.1, "RESPONSE <file> <transfer_speed> <ids>" and "REQUEST <file> <tcp_port> <ids>".
MessageSize(kind, name_len, n, ttl, port, speed) ==
    CASE kind = "DISCOVERY" -> 10 + name_len + 1 + Len(Decimal(n)) + 1 + Len(Decimal(ttl))
                                  + 1 + 9 + 1 + Len(Decimal(port))
      [] kind = "RESPONSE" -> 9 + name_len + 1 + Len(Decimal(speed)) + 1 + ChunkListSize(n)
      [] kind = "REQUEST" -> 8 + name_len + 1 + Len(Decimal(port)) + 1 + ChunkListSize(n)

DatagramInit ==
    /\ dg_input \in [kind : DatagramKinds, name_len : DatagramNameLens,
                     chunks : 0..DatagramMaxChunks, peer : Peers]
    /\ dg_pc = "build"
    /\ dg_message_size = 0
    /\ dg_bytes_received = 0
    /\ dg_dead = FALSE
    /\ PlannerIdle
    /\ StoreIdle
    /\ NetIdle
    /\ SearchIdle
    /\ FrameIdle
    /\ MapsIdle
    /\ TableIdle
    /\ PushIdle

\* A sender builds its message and hands all of it to sendto; sendChunkResponseMessage
\* sends nothing when the peer holds no chunk of the file.
DatagramSend ==
    /\ DatagramOnly
    /\ dg_pc = "build"
    /\ IF dg_input.kind = "RESPONSE" /\ dg_input.chunks = 0
       THEN /\ dg_pc' = "none"
            /\ UNCHANGED dg_message_size
       ELSE /\ dg_pc' = "flight"
            /\ dg_message_size' = MessageSize(dg_input.kind, dg_input.name_len,
                                              dg_input.chunks, 1, udp_port(dg_input.peer),
                                              transfer_speed(dg_input.peer))
    /\ UNCHANGED <<dg_input, dg_bytes_received, dg_dead>>

\* UDPServer::run: recvfrom stores the first CONTROL_MESSAGE_MAX_SIZE bytes of the
\* datagram and drops the rest; buffer[bytes_received] = '\0' is then a write past
\* the end of buffer when bytes_received is the size of the buffer, which is
\* undefined: the process dies or goes on to handle the message.
DatagramRun(dies) ==
    /\ DatagramOnly
    /\ dg_pc = "flight"
    /\ LET bytes_received == Min(dg_message_size, CONTROL_MESSAGE_MAX_SIZE)
       IN  /\ dg_bytes_received' = bytes_received
           /\ dies => bytes_received = CONTROL_MESSAGE_MAX_SIZE
           /\ dg_dead' = dies
    /\ dg_pc' = "handled"
    /\ UNCHANGED <<dg_input, dg_message_size>>

DatagramDoRun == \E dies \in BOOLEAN : DatagramRun(dies)

DatagramNext ==
    \/ DatagramSend
    \/ DatagramDoRun

SpecDatagram == DatagramInit /\ [][DatagramNext]_vars

\* C25: no datagram of more than CONTROL_MESSAGE_MAX_SIZE bytes is handed to sendto,
\* whatever its kind and the number of chunk ids it lists, and the terminator
\* UDPServer::run writes after the bytes received lies inside its buffer, at an
\* index below CONTROL_MESSAGE_MAX_SIZE.
C25_DatagramWithin1024 ==
    /\ dg_pc \in {"flight", "handled"} => dg_message_size <= CONTROL_MESSAGE_MAX_SIZE
    /\ dg_pc = "handled" => dg_bytes_received < CONTROL_MESSAGE_MAX_SIZE
    /\ ~dg_dead

(***************************************************************************)
(* FileManager's maps and per-file mutexes under the tasks of one peer     *)
(***************************************************************************)
MapFiles == {"f", "g"}

\* The search task Peer::start creates for each file name and a task UDPServer::run
\* creates for a datagram.
MapTasks == {"search_f", "search_g", "handler"}

MapFileOf(t) == IF t = "search_f" THEN "f" ELSE "g"

\* The maps C27 is about.
PerFileMaps == {"local_chunks", "local_chunks_mutex", "chunk_location_info",
                "chunk_location_info_mutex"}

MapNames == PerFileMaps \cup {"file_chunks"}

\* One step of a task on a map: operator[] or try_emplace ("index", which inserts an
\* entry when there is none), find ("find"), at ("at", which throws when there is no
\* entry), erase; the lock and unlock of the mutex of a file; and the steps on
\* processing_active_map under processing_mutex ("open", "close", "check").
Access(acc, map, file) == [acc |-> acc, map |-> map, file |-> file]

NoAccess == [map |-> "none", file |-> "none", writes |-> FALSE]

\* Peer::searchFile and discoverAndRequestChunks for a file whose sidecar loads:
\* initializeFileChunks, initializeChunkLocationInfo, initializeProcessingActive,
\* assembleFile and, when the peer holds every chunk, clearChunkLocationInfo;
\* otherwise waitForResponses and the snapshot of selectPeersForChunkDownload.
searchFileAccesses(file, complete) ==
    << Access("index", "file_chunks", file),
       Access("index", "file_chunks", file),
       Access("index", "chunk_location_info", file),
       Access("index", "chunk_location_info_mutex", file),
       Access("open", "processing_active_map", file),
       Access("index", "file_chunks", file),
       Access("index", "local_chunks", file) >>
    \o IF complete
       THEN << Access("erase", "chunk_location_info", file),
               Access("erase", "chunk_location_info_mutex", file) >>
       ELSE << Access("close", "processing_active_map", file),
               Access("index", "chunk_location_info_mutex", file),
               Access("lock", "chunk_location_info_mutex", file),
               Access("at", "chunk_location_info", file),
               Access("unlock", "chunk_location_info_mutex", file) >>

\* processMessage for a RESPONSE that lists a chunk the peer lacks (the test of the
\* window, hasChunk, storeChunkLocationInfo) and for a DISCOVERY from another origin
\* (getAvailableChunks).
processMessageAccesses(kind, file) ==
    IF kind = "RESPONSE"
    THEN << Access("check", "processing_active_map", file),
            Access("index", "local_chunks_mutex", file),
            Access("lock", "local_chunks_mutex", file),
            Access("index", "local_chunks", file),
            Access("unlock", "local_chunks_mutex", file),
            Access("index", "chunk_location_info_mutex", file),
            Access("lock", "chunk_location_info_mutex", file),
            Access("index", "chunk_location_info", file),
            Access("unlock", "chunk_location_info_mutex", file) >>
    ELSE << Access("index", "local_chunks_mutex", file),
            Access("lock", "local_chunks_mutex", file),
            Access("find", "local_chunks", file),
            Access("unlock", "local_chunks_mutex", file) >>

\* The accesses of a task, in the order of its code.
Program(t) ==
    IF t = "handler"
    THEN processMessageAccesses(mp_input.handler.kind, mp_input.handler.file)
    ELSE searchFileAccesses(MapFileOf(t), mp_input.held[MapFileOf(t)] = "all")

MapsAt(t) == IF mp_pc[t] <= Len(Program(t)) THEN Program(t)[mp_pc[t]] ELSE Access("end", "none", "none")

\* The handler of a RESPONSE holds processing_mutex from the test of the window to
\* its end.
HandlerHoldsProcessingMutex ==
    /\ mp_input.handler.kind = "RESPONSE"
    /\ mp_pc["handler"] > 1
    /\ mp_pc["handler"] <= Len(Program("handler"))

\* Two tasks are in the middle of accesses to the same map and one of them changes
\* its structure: a data race on the std::map.
RacesWith(t, u) ==
    /\ t # u
    /\ mp_busy[t] # NoAccess
    /\ mp_busy[u] # NoAccess
    /\ mp_busy[t].map = mp_busy[u].map
    /\ mp_busy[t].writes \/ mp_busy[u].writes

\* After loadLocalChunks: local_chunks and local_chunks_mutex have an entry for each
\* file the directory holds a chunk of; the other maps are empty.
MapsInit ==
    /\ mp_input \in [held : [MapFiles -> {"none", "some", "all"}],
                     handler : [kind : {"RESPONSE", "DISCOVERY"}, file : MapFiles]]
    /\ mp_keys = [m \in MapNames |->
                    IF m \in {"local_chunks", "local_chunks_mutex"}
                    THEN {file \in MapFiles : mp_input.held[file] # "none"}
                    ELSE {}]
    /\ mp_holder = [k \in {"local_chunks_mutex", "chunk_location_info_mutex"} \X MapFiles |->
                      "free"]
    /\ mp_window = [file \in MapFiles |-> FALSE]
    /\ mp_pc = [t \in MapTasks |-> 1]
    /\ mp_busy = [t \in MapTasks |-> NoAccess]
    /\ mp_dead = FALSE
    /\ PlannerIdle
    /\ StoreIdle
    /\ NetIdle
    /\ SearchIdle
    /\ FrameIdle
    /\ DatagramIdle
    /\ TableIdle
    /\ PushIdle

\* A task starts an access to a map; an operator[] on a key the map lacks, and an
\* erase, change the structure of the map.
MapsBegin(t) ==
    /\ MapsOnly
    /\ ~mp_dead
    /\ mp_busy[t] = NoAccess
    /\ MapsAt(t).acc \in {"index", "find", "at", "erase"}
    /\ LET a == MapsAt(t)
       IN  mp_busy' = [mp_busy EXCEPT ![t] =
               [map |-> a.map, file |-> a.file,
                writes |-> \/ a.acc = "erase"
                           \/ a.acc = "index" /\ a.file \notin mp_keys[a.map]]]
    /\ UNCHANGED <<mp_input, mp_keys, mp_holder, mp_window, mp_pc, mp_dead>>

\* A task ends its access. After a data race anything may have happened to the map:
\* the process dies or the access takes effect; at throws when the entry is not
\* there, and nothing catches it. The erase of a mutex destroys it, held or not.
MapsEnd(t, dies) ==
    /\ MapsOnly
    /\ ~mp_dead
    /\ mp_busy[t] # NoAccess
    /\ dies => \E u \in MapTasks : RacesWith(t, u)
    /\ LET a == MapsAt(t)
       IN  IF dies \/ (a.acc = "at" /\ a.file \notin mp_keys[a.map])
           THEN /\ mp_dead' = TRUE
                /\ UNCHANGED <<mp_keys, mp_holder, mp_pc, mp_busy>>
           ELSE /\ mp_keys' = [mp_keys EXCEPT ![a.map] =
                                  IF a.acc = "index" THEN @ \cup {a.file}
                                  ELSE IF a.acc = "erase" THEN @ \ {a.file}
                                  ELSE @]
                /\ mp_holder' = IF a.acc = "erase" /\ <<a.map, a.file>> \in DOMAIN mp_holder
                                THEN [mp_holder EXCEPT ![<<a.map, a.file>>] = "free"]
                                ELSE mp_holder
                /\ mp_pc' = [mp_pc EXCEPT ![t] = @ + 1]
                /\ mp_busy' = [mp_busy EXCEPT ![t] = NoAccess]
                /\ UNCHANGED mp_dead
    /\ UNCHANGED <<mp_input, mp_window>>

\* The lock of a per-file mutex waits until the mutex is free; the lock of a mutex
\* that was erased after the task looked it up, and the unlock of one that is no
\* longer held by the task, are undefined: the process dies or goes on.
MapsLock(t, dies) ==
    /\ MapsOnly
    /\ ~mp_dead
    /\ MapsAt(t).acc \in {"lock", "unlock"}
    /\ LET a == MapsAt(t)
           k == <<a.map, a.file>>
           sound == IF a.acc = "lock" THEN a.file \in mp_keys[a.map] ELSE mp_holder[k] = t
       IN  /\ a.acc = "lock" => mp_holder[k] = "free"
           /\ dies => ~sound
           /\ IF dies
              THEN /\ mp_dead' = TRUE
                   /\ UNCHANGED <<mp_holder, mp_pc>>
              ELSE /\ mp_holder' = [mp_holder EXCEPT ![k] =
                                       IF a.acc = "lock" THEN t
                                       ELSE IF @ = t THEN "free" ELSE @]
                   /\ mp_pc' = [mp_pc EXCEPT ![t] = @ + 1]
                   /\ UNCHANGED mp_dead
    /\ UNCHANGED <<mp_input, mp_keys, mp_window, mp_busy>>

\* initializeProcessingActive and the end of waitForResponses set the window of the
\* file under processing_mutex; the handler of a RESPONSE takes processing_mutex,
\* goes on when the window of the file is true and ends when it is not.
MapsWindow(t) ==
    /\ MapsOnly
    /\ ~mp_dead
    /\ MapsAt(t).acc \in {"open", "close", "check"}
    /\ LET a == MapsAt(t)
       IN  IF a.acc = "check"
           THEN /\ mp_pc' = [mp_pc EXCEPT ![t] =
                                IF mp_window[a.file] THEN @ + 1 ELSE Len(Program(t)) + 1]
                /\ UNCHANGED mp_window
           ELSE /\ ~HandlerHoldsProcessingMutex
                /\ mp_window' = [mp_window EXCEPT ![a.file] = (a.acc = "open")]
                /\ mp_pc' = [mp_pc EXCEPT ![t] = @ + 1]
    /\ UNCHANGED <<mp_input, mp_keys, mp_holder, mp_busy, mp_dead>>

MapsDoBegin == \E t \in MapTasks : MapsBegin(t)

MapsDoEnd == \E t \in MapTasks, dies \in BOOLEAN : MapsEnd(t, dies)

MapsDoLock == \E t \in MapTasks, dies \in BOOLEAN : MapsLock(t, dies)

MapsDoWindow == \E t \in MapTasks : MapsWindow(t)

MapsNext ==
    \/ MapsDoBegin
    \/ MapsDoEnd
    \/ MapsDoLock
    \/ MapsDoWindow

SpecMaps == MapsInit /\ [][MapsNext]_vars

\* C27: no task is in the middle of an insertion of a new entry in one of the lock
\* maps or per-file data maps while another task is in the middle of an access, an
\* insertion or a read, to the same map.
C27_MapInsertsSerialised ==
    \A t, u \in MapTasks :
        ~(/\ RacesWith(t, u)
          /\ mp_busy[t].map \in PerFileMaps
          /\ MapsAt(t).acc = "index"
          /\ mp_busy[t].writes)

\* C28: while a task is in the middle of clearChunkLocationInfo of a file, erasing
\* the entry of the table or its mutex, no other task holds the mutex of the table
\* of that file or is about to lock it, as storeChunkLocationInfo and the snapshot
\* of selectPeersForChunkDownload do.
C28_ClearExcludesTableUsers ==
    \A t, u \in MapTasks :
        (/\ t # u
         /\ mp_busy[t] # NoAccess
         /\ MapsAt(t).acc = "erase"
         /\ mp_busy[t].map \in {"chunk_location_info", "chunk_location_info_mutex"})
        => /\ mp_holder[<<"chunk_location_info_mutex", mp_busy[t].file>>] # u
           /\ MapsAt(u) # Access("lock", "chunk_location_info_mutex", mp_busy[t].file)

(***************************************************************************)
(* SpecTable: RESPONSE handlers recording providers in the table of a file *)
(***************************************************************************)
\* Number of chunks of the file of the table specification.
TableChunks == 2

\* UDPServer::run starts one detached thread per datagram.
TableHandlers == {"h1", "h2"}

\* The chunks of the file the searching peer holds: none.
TableHeld == {}

\* The senders of the RESPONSEs: the address the datagram came from and the rate it
\* announces. The same address answers at two rates, and two senders share an ip.
TableSenders ==
    { ChunkLocationInfo("A", 6001, 100),
      ChunkLocationInfo("A", 6001, 50),
      ChunkLocationInfo("A", 6002, 50) }

\* The chunk ids of the RESPONSEs: a chunk, and lists with an id below and above the
\* range of the file.
TableChunkLists ==
    { <<0>>, <<-1, 0, TableChunks - 1>>, <<TableChunks, TableChunks - 1>> }

TableCalls == [sender : TableSenders, chunks : TableChunkLists]

NoCall == [sender |-> "none", chunks |-> <<>>]

TableInit ==
    /\ tb_info = EmptyInfo(TableChunks)
    /\ tb_call = [h \in TableHandlers |-> NoCall]
    /\ tb_pc = [h \in TableHandlers |-> "idle"]
    /\ tb_holder = "none"
    /\ PlannerIdle
    /\ StoreIdle
    /\ NetIdle
    /\ SearchIdle
    /\ FrameIdle
    /\ DatagramIdle
    /\ MapsIdle
    /\ PushIdle

\* UDPServer::run receives a RESPONSE and hands it to a new thread.
TableReceive(h, call) ==
    /\ tb_pc[h] = "idle"
    /\ tb_call' = [tb_call EXCEPT ![h] = call]
    /\ tb_pc' = [tb_pc EXCEPT ![h] = "wait"]
    /\ UNCHANGED <<tb_info, tb_holder>>
    /\ TableOnly

\* processMessage: std::lock_guard on processing_mutex; the window of the file is open.
TableLock(h) ==
    /\ tb_pc[h] = "wait"
    /\ tb_holder = "none"
    /\ tb_holder' = h
    /\ tb_pc' = [tb_pc EXCEPT ![h] = "store"]
    /\ UNCHANGED <<tb_info, tb_call>>
    /\ TableOnly

\* processChunkResponseMessage under processing_mutex: the chunk ids not held go to
\* storeChunkLocationInfo with the address of the sender; then the lock is released.
TableStore(h) ==
    /\ tb_pc[h] = "store"
    /\ tb_holder = h
    /\ LET call == tb_call[h]
           ids == chunks_received(TableHeld, call.chunks)
       IN  tb_info' = IF Len(ids) > 0
                      THEN storeChunkLocationInfo(tb_info, ids, call.sender.ip,
                                                  call.sender.port,
                                                  call.sender.transfer_speed)
                      ELSE tb_info
    /\ tb_holder' = "none"
    /\ tb_pc' = [tb_pc EXCEPT ![h] = "done"]
    /\ UNCHANGED tb_call
    /\ TableOnly

\* The handler thread ends.
TableExit(h) ==
    /\ tb_pc[h] = "done"
    /\ tb_call' = [tb_call EXCEPT ![h] = NoCall]
    /\ tb_pc' = [tb_pc EXCEPT ![h] = "idle"]
    /\ UNCHANGED <<tb_info, tb_holder>>
    /\ TableOnly

TableDoReceive == \E h \in TableHandlers, call \in TableCalls : TableReceive(h, call)

TableDoLock == \E h \in TableHandlers : TableLock(h)

TableDoStore == \E h \in TableHandlers : TableStore(h)

TableDoExit == \E h \in TableHandlers : TableExit(h)

TableNext ==
    \/ TableDoReceive
    \/ TableDoLock
    \/ TableDoStore
    \/ TableDoExit

SpecTable == TableInit /\ [][TableNext]_vars

(***************************************************************************)
(* Properties of the table                                                 *)
(***************************************************************************)
\* The chunk ids of the file.
TableRange == 0..(TableChunks - 1)

\* The chunk ids a call lists.
ListedChunks(call) == {call.chunks[k] : k \in 1..Len(call.chunks)}

\* C29: the provider list of every chunk holds at most one record per (ip, port),
\* whatever RESPONSEs the handlers store and in whatever order, and a record once in
\* the list stays as it is, so the rate a provider was first recorded with is kept.
C29_OneRecordPerProvider ==
    [][\A i \in TableRange :
          /\ \A k, l \in 1..Len(tb_info'[i + 1]) :
                PeerKey(tb_info'[i + 1][k]) = PeerKey(tb_info'[i + 1][l]) => k = l
          /\ Len(tb_info[i + 1]) <= Len(tb_info'[i + 1])
          /\ \A k \in 1..Len(tb_info[i + 1]) : tb_info'[i + 1][k] = tb_info[i + 1][k]]_vars

\* A handler has stored a RESPONSE of a provider that is in the list of one of its
\* chunks with another rate than the one this RESPONSE announced.
C29_Witness ==
    \E h \in TableHandlers :
        /\ tb_pc[h] = "done"
        /\ \E i \in ListedChunks(tb_call[h]) \cap TableRange :
              \E k \in 1..Len(tb_info[i + 1]) :
                  /\ PeerKey(tb_info[i + 1][k]) = PeerKey(tb_call[h].sender)
                  /\ tb_info[i + 1][k].transfer_speed # tb_call[h].sender.transfer_speed

\* C30: a call of storeChunkLocationInfo leaves the table with total_chunks lists,
\* changes no list but those of the in-range chunk ids it was given, and leaves the
\* provider recorded in every one of those, whatever out-of-range ids the call lists.
C30_OutOfRangeIdsSkipped ==
    [][\A h \in TableHandlers :
          (tb_pc[h] = "store" /\ tb_pc'[h] = "done")
          => /\ DOMAIN tb_info' = 1..TableChunks
             /\ \A i \in TableRange \ ListedChunks(tb_call[h]) :
                   tb_info'[i + 1] = tb_info[i + 1]
             /\ \A i \in TableRange \cap ListedChunks(tb_call[h]) :
                   PeerKey(tb_call[h].sender) \in ProvidersOf(tb_info', i)]_vars

\* A handler has stored a RESPONSE that lists a negative chunk id, or one past the
\* last chunk, next to a chunk of the file, and the provider is recorded for that chunk.
C30_Witness ==
    \E h \in TableHandlers :
        /\ tb_pc[h] = "done"
        /\ \E bad \in ListedChunks(tb_call[h]) : bad < 0 \/ bad >= TableChunks
        /\ \E i \in ListedChunks(tb_call[h]) \cap TableRange :
              PeerKey(tb_call[h].sender) \in ProvidersOf(tb_info, i)

(***************************************************************************)
(* SpecPush: TCPServer::sendChunks on one connection whose sends can fail  *)
(***************************************************************************)
\* The most sends of one push that return -1.
PushMaxErrors == 1

\* The chunk lists of the REQUEST served: one chunk and two.
PushChunkLists == {<<0>>, <<0, 1>>}

\* The transfer speeds of the sender, and the size of every chunk file.
PushSpeeds == {600, 1024}

PushChunkBytes == 700

\* What a send of a block can do: transmit the block; return -1 with the process
\* going on (an interrupted call, a lack of buffers); end the process (the signal
\* a write on a connection the peer has reset raises).
PushSendResults == {"sent", "error", "killed"}

\* total_bytes_sent += bytes_sent, bytes_sent being a size_t: the -1 of a failed
\* send is stored as 2^64 - 1, which is neither below 0 nor 0, and adding it takes 1
\* from total_bytes_sent, modulo 2^64.
AddBytesSent(total_bytes_sent, result, bytes_to_send) ==
    IF result = "sent" THEN total_bytes_sent + bytes_to_send ELSE total_bytes_sent - 1

PushInit ==
    /\ ps_input \in [transfer_speed : PushSpeeds, chunks : PushChunkLists]
    /\ ps_pc = "open"
    /\ ps_k = 1
    /\ ps_total_bytes_sent = 0
    /\ ps_sent = 0
    /\ ps_errors = 0
    /\ PlannerIdle
    /\ StoreIdle
    /\ NetIdle
    /\ SearchIdle
    /\ FrameIdle
    /\ DatagramIdle
    /\ MapsIdle
    /\ TableIdle

\* sendChunks, the head of the loop on the chunks: the chunk file is opened and read
\* and its control header built, or it is not found and the loop goes to the next.
PushOpen(found) ==
    /\ PushOnly
    /\ ps_pc = "open"
    /\ ps_k <= Len(ps_input.chunks)
    /\ IF found
       THEN /\ ps_pc' = "header"
            /\ ps_total_bytes_sent' = 0
            /\ UNCHANGED ps_k
       ELSE /\ ps_k' = ps_k + 1
            /\ UNCHANGED <<ps_pc, ps_total_bytes_sent>>
    /\ UNCHANGED <<ps_input, ps_sent, ps_errors>>

\* sendChunks, one pass of the loop on the control header: the send of a block, the
\* two tests on bytes_sent (never true of a size_t that holds -1), the addition, the
\* sleep and the test of the loop; total_bytes_sent is reset after the loop.
PushSendControl(result) ==
    /\ PushOnly
    /\ ps_pc = "header"
    /\ result = "error" => ps_errors < PushMaxErrors
    /\ result = "killed" => ps_errors > 0
    /\ LET bytes_to_send == HeaderBlock(ps_input.transfer_speed, ps_total_bytes_sent)
           total == AddBytesSent(ps_total_bytes_sent, result, bytes_to_send)
       IN  IF result = "killed"
           THEN /\ ps_pc' = "dead"
                /\ UNCHANGED <<ps_total_bytes_sent, ps_sent, ps_errors>>
           ELSE /\ ps_sent' = IF result = "sent" THEN ps_sent + bytes_to_send ELSE ps_sent
                /\ ps_errors' = IF result = "error" THEN ps_errors + 1 ELSE ps_errors
                /\ IF SizeTLess(total, CONTROL_MESSAGE_MAX_SIZE)
                   THEN /\ ps_total_bytes_sent' = total
                        /\ UNCHANGED ps_pc
                   ELSE /\ ps_total_bytes_sent' = 0
                        /\ ps_pc' = "payload"
    /\ UNCHANGED <<ps_input, ps_k>>

\* sendChunks, one pass of the loop on the payload, in the same way; after the loop
\* the next chunk of the list is taken.
PushSendChunk(result) ==
    /\ PushOnly
    /\ ps_pc = "payload"
    /\ result = "error" => ps_errors < PushMaxErrors
    /\ result = "killed" => ps_errors > 0
    /\ LET bytes_to_send == ChunkBlock(ps_input.transfer_speed, PushChunkBytes,
                                       ps_total_bytes_sent)
           total == AddBytesSent(ps_total_bytes_sent, result, bytes_to_send)
       IN  IF result = "killed"
           THEN /\ ps_pc' = "dead"
                /\ UNCHANGED <<ps_total_bytes_sent, ps_sent, ps_errors, ps_k>>
           ELSE /\ ps_sent' = IF result = "sent" THEN ps_sent + bytes_to_send ELSE ps_sent
                /\ ps_errors' = IF result = "error" THEN ps_errors + 1 ELSE ps_errors
                /\ IF SizeTLess(total, PushChunkBytes)
                   THEN /\ ps_total_bytes_sent' = total
                        /\ UNCHANGED <<ps_pc, ps_k>>
                   ELSE /\ ps_total_bytes_sent' = 0
                        /\ ps_pc' = "open"
                        /\ ps_k' = ps_k + 1
    /\ UNCHANGED ps_input

\* sendChunks after the last chunk of the list: close(new_sockfd).
PushClose ==
    /\ PushOnly
    /\ ps_pc = "open"
    /\ ps_k > Len(ps_input.chunks)
    /\ ps_pc' = "closed"
    /\ UNCHANGED <<ps_input, ps_k, ps_total_bytes_sent, ps_sent, ps_errors>>

PushDoOpen == \E found \in BOOLEAN : PushOpen(found)

PushDoSendControl == \E result \in PushSendResults : PushSendControl(result)

PushDoSendChunk == \E result \in PushSendResults : PushSendChunk(result)

PushNext ==
    \/ PushDoOpen
    \/ PushDoSendControl
    \/ PushDoSendChunk
    \/ PushClose

SpecPush == PushInit /\ [][PushNext]_vars

(***************************************************************************)
(* Properties of the push with failing sends                               *)
(***************************************************************************)
\* C34: once a send of the connection has failed, no step of the sender transmits a
\* byte on it.
C34_NothingSentAfterFailedSend ==
    [][ps_errors > 0 => ps_sent' = ps_sent]_vars

====
